---- MODULE Spec2Model ----
(* Modal text editor engine of sqluy (src/editor/editor.go): buffer, undo      *)
(* stack, motion index workers, input dispatcher, cursor and viewport.         *)
(* Cursors, rows and columns are 0-based as in the source; a TLA+ sequence is  *)
(* indexed through At, SliceTo and SliceFrom, which follow Go's s[i], s[:n]    *)
(* and s[n:].                                                                  *)
EXTENDS Integers, Sequences, FiniteSets, TLC

VARIABLES
    text,              \* Editor.text: sequence of code points, "\n" separates rows
    spansPerLines,     \* Editor.spansPerLines
    cursor,            \* Editor.cursor  <<row, col>>
    mode,              \* Editor.mode
    undoStack,         \* Editor.undoStack: sequence of [text, cursor]
    undoOffset,        \* Editor.undoOffset
    editCount,         \* Editor.editCount (atomic)
    motionIndexes,     \* Editor.motionIndexes: kind -> list of <<row, start, end>>
    offsets,           \* Editor.offsets <<row offset, column offset>>
    pending,           \* Editor.pending
    pendingCount,      \* Editor.pendingCount
    pendingAction,     \* Editor.pendingAction
    lastMotion,        \* Editor.lastMotion
    waitingForMotion,  \* Editor.waitingForMotion
    visualStart,       \* Editor.visualStart
    yankOnVisual,      \* Editor.yankOnVisual
    box,               \* Editor.Box inner rectangle <<w, h>>
    clipboard,         \* the clipboard collaborator's content
    workers,           \* the goroutines spawned by SetText that have not returned
    delayed,           \* the callbacks YankUntil handed to delayDrawFunc, not yet run
    searchEditor,      \* Editor.searchEditor: <<>> for nil, or <<the one-line editor>>
    flashIndexes,      \* Editor.flashIndexes: the entries [r, c] of the map
    oneLineMode,       \* Editor.oneLineMode
    drawLoop,          \* App.drawLoop: its position and its local slice args
    keyTreePerGroup,   \* the trees keyTreePerGroupFromJSONString has built so far
    panicked,          \* a Go run-time panic ended the program
    log                \* history: the state before each handled event

vars == <<text, spansPerLines, cursor, mode, undoStack, undoOffset, editCount,
          motionIndexes, offsets, pending, pendingCount, pendingAction,
          lastMotion, waitingForMotion, visualStart, yankOnVisual, box,
          clipboard, workers, delayed, searchEditor, flashIndexes, oneLineMode,
          drawLoop, keyTreePerGroup, panicked, log>>

----------------------------------------------------------------------------
(* Go slices on TLA+ sequences *)

Min(a, b) == IF a < b THEN a ELSE b
Max(a, b) == IF a > b THEN a ELSE b

At(s, i) == s[i + 1]
SliceTo(s, n) == SubSeq(s, 1, n)
SliceFrom(s, n) == SubSeq(s, n + 1, Len(s))
InRange(s, i) == i >= 0 /\ i < Len(s)
\* s[:n] and s[n:] are defined for 0 <= n <= cap(s); spans are made with cap = len
SliceOk(s, n) == n >= 0 /\ n <= Len(s)

RECURSIVE Concat(_)
Concat(ss) == IF ss = <<>> THEN <<>> ELSE Head(ss) \o Concat(Tail(ss))

RECURSIVE SumSeq(_)
SumSeq(s) == IF s = <<>> THEN 0 ELSE Head(s) + SumSeq(Tail(s))

\* row-major order on cursors
CursorLess(a, b) == a[1] < b[1] \/ (a[1] = b[1] /\ a[2] < b[2])

----------------------------------------------------------------------------
(* Code points, classes of the motion regular expressions, segmentation *)

NL == "\n"
\* stands for the backtick U+0060, which a TLA+ string cannot hold
BQ == "bq"
TAB == "\t"
\* "~" stands for a combining mark (U+0301), "é" for a two-byte letter
Combining == {"~"}
Digits == {"0", "1", "2", "3", "4", "5", "6", "7", "8", "9"}
Letters == {"a", "b", "c", "d", "e", "f", "g", "h", "i", "j", "k", "l", "o", "p",
            "n", "r", "t", "u", "v", "w", "x", "y", "z", "A", "B", "C", "D", "E",
            "F", "G", "N", "O", "P", "T", "V", "W", "é"}
\* [a-zA-Z0-9_À-ÿ], \s, and the rest
WordChars == Letters \cup Digits
SpaceChars == {" ", TAB}
PunctChars == {".", "~", "$", ";", ",", "\"", "(", ")", "/"}
Chars == WordChars \cup SpaceChars \cup PunctChars

tabSize == 4

\* utf8.DecodeRuneInString: the encoded size of one code point
RuneBytes(r) == IF r \in {"é", "~"} THEN 2 ELSE 1

\* strings.Split(text, "\n")
RECURSIVE SplitFrom(_, _)
SplitFrom(t, acc) ==
    IF t = <<>> THEN <<acc>>
    ELSE IF Head(t) = NL THEN <<acc>> \o SplitFrom(Tail(t), <<>>)
    ELSE SplitFrom(Tail(t), Append(acc, Head(t)))
Split(t) == SplitFrom(t, <<>>)

\* uniseg.StepString: a cluster is a base code point with its combining marks
RECURSIVE Clusters(_)
Clusters(line) ==
    IF line = <<>> THEN <<>>
    ELSE LET rest == Clusters(Tail(line))
         IN IF rest # <<>> /\ Head(Head(rest)) \in Combining
            THEN <<<<Head(line)>> \o Head(rest)>> \o Tail(rest)
            ELSE <<<<Head(line)>>>> \o rest

Sentinel == [runes |-> <<>>, width |-> 1, bytesWidth |-> 0]

\* the span of one cluster: bytesWidth is the size of the first code point
SpanOf(cluster) ==
    [runes |-> cluster,
     width |-> IF cluster = <<TAB>> THEN tabSize ELSE 1,
     bytesWidth |-> RuneBytes(cluster[1])]

SegmentLine(line) ==
    LET cs == Clusters(line)
    IN [j \in 1..Len(cs) |-> SpanOf(cs[j])] \o <<Sentinel>>

Segment(lines) == [i \in 1..Len(lines) |-> SegmentLine(lines[i])]

\* printable width of spans[:n]
WidthTo(spans, n) == SumSeq([j \in 1..n |-> spans[j].width])

----------------------------------------------------------------------------
(* The motion regular expressions and the per-line index entries *)

\* a pattern is  (?:^|[pre])([cap])  or  ([cap])(?:[post]|$) ; anchor tells
\* whether the ^ or $ alternative exists, capture whether m[2], m[3] exist
NonWord == Chars \ WordChars
NonSpace == Chars \ SpaceChars

rgMotionwOne == [shape |-> "pre", other |-> NonWord, anchor |-> TRUE,
                 cap |-> WordChars, capture |-> TRUE]
rgMotionwTwo == [shape |-> "pre", other |-> WordChars \cup SpaceChars, anchor |-> TRUE,
                 cap |-> PunctChars, capture |-> TRUE]
rgMotioneOne == [shape |-> "post", other |-> WordChars \cup SpaceChars, anchor |-> TRUE,
                 cap |-> PunctChars, capture |-> TRUE]
rgMotioneTwo == [shape |-> "post", other |-> NonWord, anchor |-> TRUE,
                 cap |-> WordChars, capture |-> TRUE]
rgMotionW == [shape |-> "pre", other |-> SpaceChars, anchor |-> FALSE,
              cap |-> NonSpace, capture |-> TRUE]
rgMotionE == [shape |-> "post", other |-> SpaceChars, anchor |-> TRUE,
              cap |-> NonSpace, capture |-> FALSE]

\* the match of rg that starts at code point p: <<m0, m1, m2, m3>> or <<>>
MatchAt(line, p, rg) ==
    LET n == Len(line)
    IN IF rg.shape = "pre"
       THEN IF rg.anchor /\ p = 0 /\ p < n /\ At(line, p) \in rg.cap
            THEN <<p, p + 1, p, p + 1>>
            ELSE IF p + 1 < n /\ At(line, p) \in rg.other /\ At(line, p + 1) \in rg.cap
            THEN <<p, p + 2, p + 1, p + 2>>
            ELSE <<>>
       ELSE IF p < n /\ At(line, p) \in rg.cap
            THEN IF p + 1 < n /\ At(line, p + 1) \in rg.other
                 THEN <<p, p + 2, p, p + 1>>
                 ELSE IF rg.anchor /\ p + 1 = n THEN <<p, p + 1, p, p + 1>>
                 ELSE <<>>
            ELSE <<>>

\* regexp.FindAllStringSubmatchIndex: leftmost matches, not overlapping
RECURSIVE FindAllFrom(_, _, _)
FindAllFrom(line, p, rg) ==
    IF p >= Len(line) THEN <<>>
    ELSE LET m == MatchAt(line, p, rg)
         IN IF m = <<>> THEN FindAllFrom(line, p + 1, rg)
            ELSE <<m>> \o FindAllFrom(line, m[2], rg)
FindAll(line, rg) == FindAllFrom(line, 0, rg)

\* byte offset of code point p of the line
ByteOff(line, p) == SumSeq([j \in 1..p |-> RuneBytes(line[j])])

\* the byte offset -> column mapper built from the spans' bytesWidth
MapperOf(spans) ==
    Concat([c \in 1..Len(spans) |-> [j \in 1..spans[c].bytesWidth |-> c - 1]])

\* the byte offsets <<first, last>> the worker looks up in the mapper
MatchBytes(line, m, rg) ==
    IF rg.capture THEN <<ByteOff(line, m[3]), ByteOff(line, m[4]) - 1>>
    ELSE <<ByteOff(line, m[1]), ByteOff(line, m[2]) - 1>>

\* the entries of row i for one expression
LineEntries(i, line, spans, rg) ==
    LET ms == FindAll(line, rg)
        mapper == MapperOf(spans)
    IN [k \in 1..Len(ms) |->
          <<i, At(mapper, MatchBytes(line, ms[k], rg)[1]),
               At(mapper, MatchBytes(line, ms[k], rg)[2])>>]

\* mapper[...] index out of range
LineEntriesPanics(line, spans, rg) ==
    LET ms == FindAll(line, rg)
        mapper == MapperOf(spans)
    IN \E k \in 1..Len(ms) :
          \/ ~InRange(mapper, MatchBytes(line, ms[k], rg)[1])
          \/ ~InRange(mapper, MatchBytes(line, ms[k], rg)[2])

\* sort.Slice by (row, start column)
RECURSIVE InsertEntry(_, _)
InsertEntry(sorted, x) ==
    IF sorted = <<>> THEN <<x>>
    ELSE IF CursorLess(x, Head(sorted)) THEN <<x>> \o sorted
    ELSE <<Head(sorted)>> \o InsertEntry(Tail(sorted), x)
RECURSIVE SortIndexes(_)
SortIndexes(ix) ==
    IF ix = <<>> THEN <<>> ELSE InsertEntry(SortIndexes(Tail(ix)), Head(ix))

MotionKinds == {"w", "e", "W", "E"}

\* the expressions a worker of each kind runs on a line, in order
KindRegexps(kind) ==
    CASE kind = "w" -> <<rgMotionwOne, rgMotionwTwo>>
      [] kind = "e" -> <<rgMotioneOne, rgMotioneTwo>>
      [] kind = "W" -> <<rgMotionW>>
      [] kind = "E" -> <<rgMotionE>>

\* one iteration of the worker's loop over row i: the entries it appends
WorkerLine(kind, i, line, spans) ==
    IF line = <<>> THEN <<>>
    ELSE Concat([k \in 1..Len(KindRegexps(kind)) |->
                   LineEntries(i, line, spans, KindRegexps(kind)[k])])

WorkerLinePanics(kind, i, line, spansSnapshot) ==
    /\ line # <<>>
    /\ \/ ~InRange(spansSnapshot, i)
       \/ \E k \in 1..Len(KindRegexps(kind)) :
             LineEntriesPanics(line, At(spansSnapshot, i), KindRegexps(kind)[k])

\* w and e sort their list before publishing, W and E do not
WorkerResult(kind, indexes) ==
    IF kind \in {"w", "e"} THEN SortIndexes(indexes) ELSE indexes

\* the list a worker of this kind computes from a text, run to completion
RECURSIVE IndexFrom(_, _, _, _)
IndexFrom(kind, lines, spans, i) ==
    IF i >= Len(lines) THEN <<>>
    ELSE WorkerLine(kind, i, At(lines, i), At(spans, i))
         \o IndexFrom(kind, lines, spans, i + 1)
IndexOf(kind, t) == WorkerResult(kind, IndexFrom(kind, Split(t), Segment(Split(t)), 0))

----------------------------------------------------------------------------
(* The editor as a value: one field per Editor field, so that a handler is   *)
(* the composition of the methods it calls                                    *)

ActionNone == "none"
\* the editor New builds is multi-line; SetOneLineMode(true) is called on the
\* search editor only
\* an editor that is no prompt keeps the onExitFunc and the nil onDoneFunc and
\* onTextChangedFunc of New
NoPrompt == "none"
NoIndex == <<>>     \* a nil list: absent from the map, or published without entries
\* the keys of Editor.motionIndexes the program writes; an absent key reads as nil
EmptyIndexes ==
    [k \in {"w", "e", "W", "E", "n", "f", "t", "T", "s", "Z", "\"", "'", BQ} |-> NoIndex]

St == [text |-> text, spansPerLines |-> spansPerLines, cursor |-> cursor,
       mode |-> mode, undoStack |-> undoStack, undoOffset |-> undoOffset,
       editCount |-> editCount, motionIndexes |-> motionIndexes,
       offsets |-> offsets, pending |-> pending, pendingCount |-> pendingCount,
       pendingAction |-> pendingAction, lastMotion |-> lastMotion,
       waitingForMotion |-> waitingForMotion, visualStart |-> visualStart,
       yankOnVisual |-> yankOnVisual, box |-> box, clipboard |-> clipboard,
       workers |-> workers, delayed |-> delayed, searchEditor |-> searchEditor,
       flashIndexes |-> flashIndexes, prompt |-> NoPrompt, exited |-> FALSE,
       oneLineMode |-> oneLineMode, drawLoop |-> drawLoop, panicked |-> panicked]

Commit(s) ==
    /\ text' = s.text
    /\ spansPerLines' = s.spansPerLines
    /\ cursor' = s.cursor
    /\ mode' = s.mode
    /\ undoStack' = s.undoStack
    /\ undoOffset' = s.undoOffset
    /\ editCount' = s.editCount
    /\ motionIndexes' = s.motionIndexes
    /\ offsets' = s.offsets
    /\ pending' = s.pending
    /\ pendingCount' = s.pendingCount
    /\ pendingAction' = s.pendingAction
    /\ lastMotion' = s.lastMotion
    /\ waitingForMotion' = s.waitingForMotion
    /\ visualStart' = s.visualStart
    /\ yankOnVisual' = s.yankOnVisual
    /\ box' = s.box
    /\ clipboard' = s.clipboard
    /\ workers' = s.workers
    /\ delayed' = s.delayed
    /\ searchEditor' = s.searchEditor
    /\ flashIndexes' = s.flashIndexes
    /\ oneLineMode' = s.oneLineMode
    /\ drawLoop' = s.drawLoop
    /\ keyTreePerGroup' = keyTreePerGroup
    /\ panicked' = s.panicked

\* an index or slice expression out of range: the run-time panics
Panic(s) == [s EXCEPT !.panicked = TRUE]

Rows(s) == Len(s.spansPerLines)
RowSpans(s, row) == At(s.spansPerLines, row)

\* getActionCount without the correction for a pending count
getActionCountPlusOne(s) == 1 + s.pendingCount

getActionCount(s) == IF s.pendingCount > 0 THEN s.pendingCount ELSE 1

\* GetLineCursor reads spansPerLines[cursor[0]][:cursor[1]] before anything else
GetLineCursorPanics(s) ==
    \/ ~InRange(s.spansPerLines, s.cursor[1])
    \/ ~SliceOk(RowSpans(s, s.cursor[1]), s.cursor[2])

blockOffsetOf(s) ==
    IF \/ s.mode \in {"insert", "vline", "visual"}
       \/ s.pendingAction \in {"visual", "visual_line"}
    THEN 1 ELSE 0

\* the loop over targetRowSpans[:maxOffset]: the column reached
RECURSIVE WalkRow(_, _, _, _, _)
WalkRow(spans, j, acc, maxOffset, currentRowWidth) ==
    IF j >= maxOffset THEN j
    ELSE IF At(spans, j).runes = <<>> THEN j
    ELSE IF acc + At(spans, j).width > currentRowWidth THEN j
    ELSE WalkRow(spans, j + 1, acc + At(spans, j).width, maxOffset, currentRowWidth)

GetLineCursor(s, n0) ==
    LET n == Min(Max(n0, 0), Rows(s) - 1)
        currentRowWidth == WidthTo(RowSpans(s, s.cursor[1]), s.cursor[2])
        targetRowSpans == RowSpans(s, n)
        maxOffset == Max(Len(targetRowSpans) - 2 + blockOffsetOf(s), 0)
    IN <<n, WalkRow(targetRowSpans, 0, 0, maxOffset, currentRowWidth)>>

MoveCursorToLine(s, n) ==
    IF s.panicked THEN s
    ELSE IF GetLineCursorPanics(s) THEN Panic(s)
    ELSE [s EXCEPT !.cursor = GetLineCursor(s, n)]

MoveCursorTo(s, to) ==
    IF s.panicked THEN s
    ELSE MoveCursorToLine([s EXCEPT !.cursor = to], to[1])

\* a goroutine started by SetText, with its arguments and its position; what
\* the iteration over each row appends (or that it panics) and the list after
\* the sort are functions of the arguments, and the record carries them
Worker(kind, count, t, spans) ==
    LET lines == Split(t)
        panics == [r \in 1..Len(lines) |->
                     WorkerLinePanics(kind, r - 1, lines[r], spans)]
        entries == [r \in 1..Len(lines) |->
                      IF panics[r] THEN <<>>
                      ELSE WorkerLine(kind, r - 1, lines[r], At(spans, r - 1))]
    IN [kind |-> kind, editCount |-> count, rows |-> Len(lines),
        linePanics |-> panics, lineEntries |-> entries,
        sorted |-> WorkerResult(kind, Concat(entries)),
        pc |-> "loop", i |-> 0, indexes |-> <<>>]

SetText(s, t, c) ==
    IF s.panicked THEN s
    ELSE LET n == s.editCount + 1
             lines == IF s.oneLineMode THEN SliceTo(Split(t), 1) ELSE Split(t)
             s1 == [s EXCEPT !.editCount = n, !.spansPerLines = Segment(lines),
                             !.cursor = c, !.text = t]
             s2 == MoveCursorToLine(s1, c[1])
         IN IF s2.panicked THEN s2
            ELSE [s2 EXCEPT !.motionIndexes = EmptyIndexes,
                            !.workers = @ \cup {Worker(k, n, t, s1.spansPerLines) :
                                                  k \in MotionKinds}]

\* SaveChanges without the truncation of the redo tail
SaveChangesKeepTail(s) ==
    IF s.panicked THEN s
    ELSE LET maxUndoOffset == Min(s.undoOffset + 1, Len(s.undoStack))
         IN IF maxUndoOffset < 0 THEN Panic(s)
            ELSE [s EXCEPT !.undoStack = Append(s.undoStack,
                                                [text |-> s.text, cursor |-> s.cursor]),
                           !.undoOffset = maxUndoOffset]

SaveChanges(s) ==
    IF s.panicked THEN s
    ELSE LET maxUndoOffset == Min(s.undoOffset + 1, Len(s.undoStack))
         IN IF maxUndoOffset < 0 THEN Panic(s)
            ELSE [s EXCEPT !.undoStack = Append(SliceTo(s.undoStack, maxUndoOffset),
                                                [text |-> s.text, cursor |-> s.cursor]),
                           !.undoOffset = maxUndoOffset]

DecUndoOffset(s) == IF s.panicked THEN s ELSE [s EXCEPT !.undoOffset = @ - 1]

\* string(span.runes) over a list of spans
SpansText(spans) == Concat([j \in 1..Len(spans) |-> spans[j].runes])

\* the lines after row `from`, each followed by "\n" except the last line
RECURSIVE JoinRight(_, _)
JoinRight(lines, from) ==
    IF from >= Len(lines) THEN <<>>
    ELSE At(lines, from) \o (IF from < Len(lines) - 1 THEN <<NL>> ELSE <<>>)
         \o JoinRight(lines, from + 1)

ReplaceText(s, str, from0, until0) ==
    IF s.panicked THEN s
    ELSE LET swap == CursorLess(until0, from0)
             from == IF swap THEN until0 ELSE from0
             until == IF swap THEN from0 ELSE until0
             lines == Split(s.text)
         IN IF \/ ~SliceOk(lines, from[1])
               \/ ~InRange(s.spansPerLines, from[1])
               \/ ~SliceOk(RowSpans(s, from[1]), from[2])
               \/ ~InRange(s.spansPerLines, until[1])
               \/ ~SliceOk(RowSpans(s, until[1]), until[2])
            THEN Panic(s)
            ELSE LET b == Concat([i \in 1..from[1] |-> lines[i] \o <<NL>>])
                          \o SpansText(SliceTo(RowSpans(s, from[1]), from[2]))
                          \o str
                          \o SpansText(SliceFrom(RowSpans(s, until[1]), until[2]))
                          \o (IF until[1] < Len(lines) - 1 THEN <<NL>> ELSE <<>>)
                          \o JoinRight(lines, until[1] + 1)
                 IN SetText(SaveChanges(s), b, from)

GetTextPanics(s, from0, until0) ==
    LET swap == CursorLess(until0, from0)
        from == IF swap THEN until0 ELSE from0
        until == IF swap THEN from0 ELSE until0
    IN from[1] < 0 \/ until[1] + 1 > Rows(s)

\* what one span contributes to GetText
SpanText(span) == IF span.runes = <<>> THEN <<NL>> ELSE span.runes

GetText(s, from0, until0) ==
    LET swap == CursorLess(until0, from0)
        from == IF swap THEN until0 ELSE from0
        until == IF swap THEN from0 ELSE until0
        lines == SubSeq(s.spansPerLines, from[1] + 1, until[1] + 1)
    IN Concat([i \in 1..Len(lines) |->
          Concat([j \in 1..Len(lines[i]) |->
             IF \/ (i = 1 /\ j - 1 < from[2])
                \/ (i = Len(lines) /\ j - 1 > until[2])
             THEN <<>>
             ELSE SpanText(lines[i][j])])])

\* Undo that does not stop a large count at the first entry
UndoUnclamped(s) ==
    IF s.panicked THEN s
    ELSE IF Len(s.undoStack) < 1 THEN s
    ELSE IF s.undoOffset < 0 THEN s
    ELSE LET n == s.undoOffset - getActionCount(s) + 1
         IN IF ~InRange(s.undoStack, n) THEN Panic(s)
            ELSE SetText([s EXCEPT !.undoOffset = n - 1],
                         At(s.undoStack, n).text, At(s.undoStack, n).cursor)

Undo(s) ==
    IF s.panicked THEN s
    ELSE IF Len(s.undoStack) < 1 THEN s
    ELSE IF s.undoOffset < 0 THEN s
    ELSE LET n == Max(s.undoOffset - getActionCount(s) + 1, 0)
         IN IF ~InRange(s.undoStack, n) THEN Panic(s)
            ELSE SetText([s EXCEPT !.undoOffset = n - 1],
                         At(s.undoStack, n).text, At(s.undoStack, n).cursor)

Redo(s) ==
    IF s.panicked THEN s
    ELSE IF Len(s.undoStack) < 1 THEN s
    ELSE IF s.undoOffset + 2 > Len(s.undoStack) - 1 THEN s
    ELSE LET n == Min(getActionCount(s) + s.undoOffset + 1, Len(s.undoStack) - 1)
         IN IF ~InRange(s.undoStack, n) THEN Panic(s)
            ELSE SetText([s EXCEPT !.undoOffset = n - 1],
                         At(s.undoStack, n).text, At(s.undoStack, n).cursor)

----------------------------------------------------------------------------
(* Navigation in the motion index *)

EntryPos(ix, i) == <<At(ix, i)[1], At(ix, i)[2]>>

\* the loop of GetNextMotionCursor from entry i on; col is reset once a later row is seen
RECURSIVE NextScan(_, _, _, _, _)
NextScan(ix, i, row, col, n) ==
    IF i >= Len(ix) THEN -1
    ELSE IF At(ix, i)[1] < row THEN NextScan(ix, i + 1, row, col, n)
    ELSE LET col1 == IF At(ix, i)[1] > row THEN -1 ELSE col
         IN IF At(ix, i)[2] > col1 THEN (i + n) % Len(ix)
            ELSE NextScan(ix, i + 1, row, col1, n)

GetNextMotionCursor(s, m, n0, c, inclusive) ==
    LET ix == s.motionIndexes[m]
        n == Max(n0, 1) - 1
        hit == NextScan(ix, 0, c[1], IF inclusive THEN c[2] - 1 ELSE c[2], n)
    IN IF ix = NoIndex THEN [c |-> c, found |-> FALSE]
       ELSE IF Len(ix) = 1 THEN [c |-> EntryPos(ix, 0), found |-> TRUE]
       ELSE IF hit >= 0 THEN [c |-> EntryPos(ix, hit), found |-> TRUE]
       ELSE IF m # "n" THEN [c |-> c, found |-> FALSE]
       ELSE [c |-> EntryPos(ix, n % Len(ix)), found |-> TRUE]

\* Go's % keeps the sign of the dividend; the code then adds len when negative
GoMod(a, b) == IF a >= 0 THEN a % b ELSE -((-a) % b)
WrapIdx(a, b) == IF GoMod(a, b) < 0 THEN GoMod(a, b) + b ELSE GoMod(a, b)

widestLineOf(s) ==
    LET lens == {Len(s.spansPerLines[r]) : r \in 1..Rows(s)}
    IN CHOOSE x \in lens : \A y \in lens : y <= x

\* the loop of GetPrevMotionCursor, from the last entry down
RECURSIVE PrevScan(_, _, _, _, _, _, _)
PrevScan(ix, i, row, col, n, widest, inclusive) ==
    IF i < 0 THEN -1
    ELSE IF At(ix, i)[1] > row THEN PrevScan(ix, i - 1, row, col, n, widest, inclusive)
    ELSE LET col1 == IF At(ix, i)[1] < row
                     THEN (IF inclusive THEN widest + 1 ELSE widest)
                     ELSE col
         IN IF At(ix, i)[2] < col1 THEN WrapIdx(i - n, Len(ix))
            ELSE PrevScan(ix, i - 1, row, col1, n, widest, inclusive)

GetPrevMotionCursor(s, m, n0, c, inclusive) ==
    LET ix == s.motionIndexes[m]
        n == Max(n0, 1) - 1
        hit == PrevScan(ix, Len(ix) - 1, c[1], IF inclusive THEN c[2] + 1 ELSE c[2],
                        n, widestLineOf(s), inclusive)
    IN IF ix = NoIndex THEN [c |-> c, found |-> FALSE]
       ELSE IF Len(ix) = 1 THEN [c |-> EntryPos(ix, 0), found |-> TRUE]
       ELSE IF hit >= 0 THEN [c |-> EntryPos(ix, hit), found |-> TRUE]
       ELSE IF m # "n" THEN [c |-> c, found |-> FALSE]
       ELSE [c |-> EntryPos(ix, WrapIdx(Len(ix) - 1 - n, Len(ix))), found |-> TRUE]

----------------------------------------------------------------------------
(* Motions: the target cursor each motion computes *)

GetRightCursor(s) == <<s.cursor[1], s.cursor[2] + getActionCount(s)>>

GetLeftCursor(s) ==
    IF s.cursor[2] < 1 THEN s.cursor
    ELSE <<s.cursor[1], Max(s.cursor[2] - getActionCount(s), 0)>>

GetEndOfLineCursor(s) ==
    IF s.cursor[2] >= Len(RowSpans(s, s.cursor[1])) - 1 THEN s.cursor
    ELSE <<s.cursor[1], Len(RowSpans(s, s.cursor[1])) - 1>>

GetStartOfLineCursor(s) == IF s.cursor[2] < 1 THEN s.cursor ELSE <<s.cursor[1], 0>>

GetDownCursor(s) == GetLineCursor(s, getActionCount(s) + s.cursor[1])
GetUpCursor(s) == GetLineCursor(s, s.cursor[1] - getActionCount(s))

GetLastLineCursor(s) ==
    IF s.pendingCount > 0 THEN GetLineCursor(s, s.pendingCount - 1)
    ELSE GetLineCursor(s, Rows(s) - 1)

GetFirstLineCursor(s) ==
    IF s.pendingCount > 0 THEN GetLineCursor(s, s.pendingCount - 1)
    ELSE GetLineCursor(s, 0)

GetStartOfWordCursor(s) ==
    GetNextMotionCursor(s, "w", getActionCount(s), s.cursor, FALSE).c

GetEndOfWordCursor(s) ==
    LET c == GetNextMotionCursor(s, "e", getActionCount(s), s.cursor, FALSE).c
    IN IF s.pendingAction \notin {ActionNone, "visual", "yank"}
       THEN <<c[1], c[2] + 1>> ELSE c

GetBackStartOfWordCursor(s) ==
    GetPrevMotionCursor(s, "w", getActionCount(s), s.cursor, FALSE).c

GetBackEndOfWordCursor(s) ==
    GetPrevMotionCursor(s, "e", getActionCount(s), s.cursor, FALSE).c

GetStartOfBigWordCursor(s) ==
    GetNextMotionCursor(s, "W", getActionCount(s), s.cursor, FALSE).c

GetEndOfBigWordCursor(s) ==
    GetNextMotionCursor(s, "E", getActionCount(s), s.cursor, FALSE).c

GetBackStartOfBigWordCursor(s) ==
    GetPrevMotionCursor(s, "W", getActionCount(s), s.cursor, FALSE).c

GetBackEndOfBigWordCursor(s) ==
    GetPrevMotionCursor(s, "E", getActionCount(s), s.cursor, FALSE).c

\* Editor.motionRunner restricted to the motions that return a cursor at once
MotionActions ==
    {"move_left", "move_right", "move_up", "move_down", "move_end_of_line",
     "move_start_of_line", "move_last_line", "move_first_line",
     "move_end_of_word", "move_start_of_word", "move_back_start_of_word",
     "move_back_end_of_word", "move_start_of_big_word",
     "move_back_start_of_big_word", "move_end_of_big_word",
     "move_back_end_of_big_word"}
OperatorlessMotionActions == MotionActions
CountlessMotionActions == {"move_start_of_line"}
OperatorActions == {"change", "delete", "yank", "visual"}
WaitingForRuneActions == {"til", "til_back", "find", "find_back", "inside", "around"}

motionRunner(s, action) ==
    CASE action = "move_left" -> GetLeftCursor(s)
      [] action = "move_right" -> GetRightCursor(s)
      [] action = "move_up" -> GetUpCursor(s)
      [] action = "move_down" -> GetDownCursor(s)
      [] action = "move_end_of_line" -> GetEndOfLineCursor(s)
      [] action = "move_start_of_line" -> GetStartOfLineCursor(s)
      [] action = "move_last_line" -> GetLastLineCursor(s)
      [] action = "move_first_line" -> GetFirstLineCursor(s)
      [] action = "move_start_of_word" -> GetStartOfWordCursor(s)
      [] action = "move_end_of_word" -> GetEndOfWordCursor(s)
      [] action = "move_back_start_of_word" -> GetBackStartOfWordCursor(s)
      [] action = "move_back_end_of_word" -> GetBackEndOfWordCursor(s)
      [] action = "move_start_of_big_word" -> GetStartOfBigWordCursor(s)
      [] action = "move_end_of_big_word" -> GetEndOfBigWordCursor(s)
      [] action = "move_back_start_of_big_word" -> GetBackStartOfBigWordCursor(s)
      [] action = "move_back_end_of_big_word" -> GetBackEndOfBigWordCursor(s)

\* the motions that go through GetLineCursor fail as it does
motionRunnerPanics(s, action) ==
    /\ action \in {"move_up", "move_down", "move_last_line", "move_first_line"}
    /\ GetLineCursorPanics(s)

----------------------------------------------------------------------------
(* Operators and the other actions *)

SetMode(s, m) == IF s.panicked THEN s ELSE [s EXCEPT !.mode = m]
SetCursor(s, c) == IF s.panicked THEN s ELSE [s EXCEPT !.cursor = c]
SetCol(s, col) == IF s.panicked THEN s ELSE [s EXCEPT !.cursor = <<s.cursor[1], col>>]

MoveCursorRight(s) == IF s.panicked THEN s ELSE MoveCursorTo(s, GetRightCursor(s))
MoveCursorEndOfLine(s) == IF s.panicked THEN s ELSE MoveCursorTo(s, GetEndOfLineCursor(s))
MoveCursorLeft(s) == IF s.panicked THEN s ELSE SetCursor(s, GetLeftCursor(s))
MoveCursorStartOfLine(s) == IF s.panicked THEN s ELSE SetCursor(s, GetStartOfLineCursor(s))
MoveCursorDown(s) ==
    IF s.panicked THEN s
    ELSE IF GetLineCursorPanics(s) THEN Panic(s)
    ELSE SetCursor(s, GetDownCursor(s))

DeleteUntil(s, until0) ==
    IF s.panicked THEN s
    ELSE LET swap == CursorLess(until0, s.cursor)
             from == IF swap THEN until0 ELSE s.cursor
             until == IF swap THEN s.cursor ELSE until0
         IN IF GetTextPanics(s, from, until) THEN Panic(s)
            ELSE ReplaceText([s EXCEPT !.clipboard = GetText(s, from, until)],
                             <<>>, from, until)

ChangeUntil(s, until) == DeleteUntil(SetMode(s, "insert"), until)

VisualUntil(s, until) ==
    IF s.panicked THEN s
    ELSE IF s.mode = "visual" THEN SetMode(s, "normal")
    ELSE SetMode(MoveCursorTo([s EXCEPT !.visualStart = s.cursor], until), "visual")

\* the callback handed to delayDrawFunc runs later, if the host runs it
YankUntil(s, until) ==
    LET s1 == VisualUntil(s, until)
    IN IF s1.panicked THEN s1
       ELSE [s1 EXCEPT !.yankOnVisual = TRUE, !.delayed = @ + 1]

operatorRunner(s, action, target) ==
    CASE action = ActionNone -> MoveCursorTo(s, target)
      [] action = "change" -> ChangeUntil(s, target)
      [] action = "delete" -> DeleteUntil(s, target)
      [] action = "yank" -> YankUntil(s, target)
      [] action = "visual" -> VisualUntil(s, target)

DeleteUnderCursor(s) ==
    IF s.panicked THEN s
    ELSE LET n == Min(getActionCount(s) + s.cursor[2],
                      Len(RowSpans(s, s.cursor[1])) - 1)
         IN ReplaceText(s, <<>>, s.cursor, <<s.cursor[1], n>>)

InsertBelow(s) ==
    LET s1 == MoveCursorEndOfLine(s)
        s2 == SetCol(s1, s1.cursor[2] + 1)
        s3 == ReplaceText(s2, <<NL>>, s2.cursor, s2.cursor)
        s4 == SetCol(MoveCursorDown(s3), 0)
    IN SetMode(DecUndoOffset(SaveChanges(s4)), "insert")

InsertAbove(s) ==
    LET s1 == MoveCursorStartOfLine(s)
        s2 == SetCol(ReplaceText(s1, <<NL>>, s1.cursor, s1.cursor), 0)
    IN SetMode(DecUndoOffset(SaveChanges(s2)), "insert")

ChangeUntilEndOfLine(s) == IF s.panicked THEN s ELSE ChangeUntil(s, GetEndOfLineCursor(s))

DeleteUntilEndOfLine(s) ==
    IF s.panicked THEN s
    ELSE IF Len(RowSpans(s, s.cursor[1])) <= 1 THEN s
    ELSE LET until == <<s.cursor[1], Len(RowSpans(s, s.cursor[1])) - 1>>
             s1 == ReplaceText(s, <<>>, s.cursor, until)
             s2 == SetCol(s1, Max(s1.cursor[2] - 1, 0))
         IN DecUndoOffset(SaveChanges(s2))

\* DeleteLine that returns early on a document of one row
DeleteLineKeepLast(s) ==
    IF s.panicked THEN s
    ELSE IF Rows(s) <= 1 THEN s
    ELSE LET row == s.cursor[1]
             last == row = Rows(s) - 1
             from == IF last /\ row # 0
                     THEN <<row - 1, Len(RowSpans(s, row - 1)) - 1>>
                     ELSE <<row, 0>>
             until == IF last THEN <<row, Len(RowSpans(s, row)) - 1>>
                      ELSE <<row + 1, 0>>
         IN DecUndoOffset(SaveChanges(ReplaceText(s, <<>>, from, until)))

DeleteLine(s) ==
    IF s.panicked THEN s
    ELSE IF Rows(s) < 1 THEN s
    ELSE LET row == s.cursor[1]
             last == row = Rows(s) - 1
             from == IF last /\ row # 0
                     THEN <<row - 1, Len(RowSpans(s, row - 1)) - 1>>
                     ELSE <<row, 0>>
             until == IF last THEN <<row, Len(RowSpans(s, row)) - 1>>
                      ELSE <<row + 1, 0>>
         IN DecUndoOffset(SaveChanges(ReplaceText(s, <<>>, from, until)))

\* for range e.getActionCount() { e.DeleteLine() }: the count is read once
RECURSIVE DeleteLines(_, _)
DeleteLines(s, n) == IF n <= 0 THEN s ELSE DeleteLines(DeleteLine(s), n - 1)

InsertAfter(s) == MoveCursorRight(SetMode(s, "insert"))
InsertEndOfLine(s) == MoveCursorEndOfLine(SetMode(s, "insert"))

\* uniseg.HasTrailingLineBreakInString
HasTrailingLineBreak(t) == t # <<>> /\ t[Len(t)] = NL

PasteBefore(s) ==
    IF s.panicked \/ s.clipboard = <<>> THEN s
    ELSE IF HasTrailingLineBreak(s.clipboard)
    THEN ReplaceText(s, s.clipboard, <<s.cursor[1], 0>>, <<s.cursor[1], 0>>)
    ELSE LET c == <<s.cursor[1], Max(s.cursor[2] - 1, 0)>>
         IN ReplaceText(s, s.clipboard, c, c)

PasteAfter(s) ==
    IF s.panicked \/ s.clipboard = <<>> THEN s
    ELSE IF HasTrailingLineBreak(s.clipboard)
    THEN ReplaceText(s, s.clipboard, <<s.cursor[1] + 1, 0>>, <<s.cursor[1] + 1, 0>>)
    ELSE ReplaceText(s, s.clipboard, <<s.cursor[1], s.cursor[2] + 1>>,
                     <<s.cursor[1], s.cursor[2] + 1>>)

VisualLine(s) ==
    IF s.panicked THEN s
    ELSE IF s.mode = "vline" THEN SetMode(s, "normal")
    ELSE SetMode([s EXCEPT !.visualStart = <<s.cursor[1], 0>>], "vline")

SwitchVisualStart(s) ==
    IF s.panicked \/ s.mode # "visual" THEN s
    ELSE [s EXCEPT !.visualStart = s.cursor, !.cursor = s.visualStart]

ResetMotionIndexes(s) ==
    IF s.panicked THEN s
    ELSE [s EXCEPT !.motionIndexes =
            [k \in DOMAIN @ |-> IF k \in {"n", "t", "T", "f", "Z"} THEN NoIndex ELSE @[k]]]

\* Editor.Exit: the onExitFunc New installs, or the one of a prompt, which acts
\* on the editor that opened it
Exit(s) ==
    IF s.panicked THEN s
    ELSE IF s.prompt # NoPrompt THEN [s EXCEPT !.exited = TRUE]
    ELSE ResetMotionIndexes(SetMode(s, "normal"))

\* the text rows of the box: the last inner row is the status line
TextRows(s) == s.box[2] - 1

\* the column the half-page moves land on in the target row
HalfPageCol(s, idx) ==
    LET spans == RowSpans(s, idx)
        blockOffset == IF s.mode = "insert" THEN 1 ELSE 0
        maxOffset == Max(Len(spans) - 2 + blockOffset, 0)
    IN WalkRow(spans, 0, 0, maxOffset, WidthTo(RowSpans(s, s.cursor[1]), s.cursor[2]))

\* the clamp both half-page moves apply to the new row offset
HalfPageOffset(s, newRowOffset, h) ==
    IF newRowOffset > Rows(s) - h THEN Rows(s) - h
    ELSE IF newRowOffset < 0 THEN 0
    ELSE newRowOffset

MoveCursorHalfPageDown(s) ==
    IF s.panicked THEN s
    ELSE IF s.cursor[1] >= Rows(s) - 1 THEN s
    ELSE IF GetLineCursorPanics(s) THEN Panic(s)
    ELSE LET h == TextRows(s)
             idx == Min(s.cursor[1] + (h \div 2), Rows(s) - 1)
             distanceFromTop == s.cursor[1] - s.offsets[1]
         IN [s EXCEPT !.cursor = <<idx, HalfPageCol(s, idx)>>,
                      !.offsets = <<HalfPageOffset(s, idx - distanceFromTop, h),
                                    s.offsets[2]>>]

MoveCursorHalfPageUp(s) ==
    IF s.panicked THEN s
    ELSE IF s.cursor[1] < 1 THEN s
    ELSE IF GetLineCursorPanics(s) THEN Panic(s)
    ELSE LET h == TextRows(s)
             idx == Max(s.cursor[1] - (h \div 2), 0)
             distanceFromTop == s.cursor[1] - s.offsets[1]
         IN [s EXCEPT !.cursor = <<idx, HalfPageCol(s, idx)>>,
                      !.offsets = <<HalfPageOffset(s, idx - distanceFromTop, h),
                                    s.offsets[2]>>]

OtherActions ==
    {"insert", "redo", "undo", "move_half_page_down", "move_half_page_up",
     "delete_under_cursor", "insert_after", "insert_end_of_line", "insert_below",
     "insert_above", "change_until_end_of_line", "delete_until_end_of_line",
     "delete_line", "paste_before", "paste_after", "visual_line", "replace",
     "switch_visual_start", "exit"}

actionRunner(s, action) ==
    CASE action = "insert" -> SetMode(s, "insert")
      [] action = "redo" -> Redo(s)
      [] action = "undo" -> Undo(s)
      [] action = "move_half_page_down" -> MoveCursorHalfPageDown(s)
      [] action = "move_half_page_up" -> MoveCursorHalfPageUp(s)
      [] action = "delete_under_cursor" -> DeleteUnderCursor(s)
      [] action = "insert_after" -> InsertAfter(s)
      [] action = "insert_end_of_line" -> InsertEndOfLine(s)
      [] action = "insert_below" -> InsertBelow(s)
      [] action = "insert_above" -> InsertAbove(s)
      [] action = "change_until_end_of_line" -> ChangeUntilEndOfLine(s)
      [] action = "delete_until_end_of_line" -> DeleteUntilEndOfLine(s)
      [] action = "delete_line" -> DeleteLines(s, getActionCount(s))
      [] action = "paste_before" -> PasteBefore(s)
      [] action = "paste_after" -> PasteAfter(s)
      [] action = "visual_line" -> VisualLine(s)
      [] action = "replace" -> SetMode(s, "replace")
      [] action = "switch_visual_start" -> SwitchVisualStart(s)
      [] action = "exit" -> Exit(s)

\* the function YankUntil hands to delayDrawFunc
YankCallback(s) ==
    IF s.panicked THEN s
    ELSE IF ~(s.yankOnVisual \/ s.mode \in {"visual", "vline"}) THEN s
    ELSE LET s1 == [s EXCEPT !.yankOnVisual = FALSE]
         IN IF s1.mode \notin {"visual", "vline"} THEN s1
            ELSE LET swap == CursorLess(s1.cursor, s1.visualStart)
                     from == IF swap THEN s1.cursor ELSE s1.visualStart
                     until == IF swap THEN s1.visualStart ELSE s1.cursor
                 IN IF GetTextPanics(s1, from, until) THEN Panic(s1)
                    ELSE ResetMotionIndexes(
                            [s1 EXCEPT !.mode = "normal",
                                       !.clipboard = GetText(s1, from, until)])

----------------------------------------------------------------------------
(* Find and till: the transient indexes built from a typed rune *)

\* the expressions buildSearchIndexes compiles for a quoted rune r
rgTil(r) == [shape |-> "post", other |-> {r}, anchor |-> FALSE, cap |-> Chars \ {r},
             capture |-> TRUE]
rgTilBack(r) == [shape |-> "pre", other |-> {r}, anchor |-> FALSE, cap |-> Chars \ {r},
                 capture |-> TRUE]

\* the quoted query alone: its leftmost occurrences that do not overlap; the
\* empty query matches the empty string at every position, the end included
RECURSIVE FindLiteralFrom(_, _, _)
FindLiteralFrom(line, p, query) ==
    IF p + Len(query) > Len(line) THEN <<>>
    ELSE IF SubSeq(line, p + 1, p + Len(query)) = query
    THEN <<<<p, p + Len(query), p, p + Len(query)>>>>
         \o FindLiteralFrom(line, IF query = <<>> THEN p + 1 ELSE p + Len(query), query)
    ELSE FindLiteralFrom(line, p + 1, query)

\* query is the sequence of code points of the string handed to buildSearchIndexes
SearchMatches(line, query, offset) ==
    IF offset < 0 THEN FindAll(line, rgTil(query[1]))
    ELSE IF offset > 0 THEN FindAll(line, rgTilBack(query[1]))
    ELSE FindLiteralFrom(line, 0, query)

\* the byte offsets <<first, last>> looked up for one match
SearchBytes(line, m, offset) ==
    IF offset # 0 THEN <<ByteOff(line, m[3]), ByteOff(line, m[3])>>
    ELSE <<ByteOff(line, m[1]), ByteOff(line, m[2]) - 1>>

\* the rows textPerLines[y:maxY] are numbered from 0 and looked up in spansPerLines[i]
RECURSIVE SearchRows(_, _, _, _, _)
SearchRows(s, rowLines, i, r, offset) ==
    IF i >= Len(rowLines) THEN <<>>
    ELSE LET line == At(rowLines, i)
             ms == SearchMatches(line, r, offset)
             mapper == MapperOf(RowSpans(s, i))
         IN (IF line = <<>> THEN <<>>
             ELSE [k \in 1..Len(ms) |->
                     <<i, At(mapper, SearchBytes(line, ms[k], offset)[1]),
                          At(mapper, SearchBytes(line, ms[k], offset)[2])>>])
            \o SearchRows(s, rowLines, i + 1, r, offset)

SearchRowsPanics(s, rowLines, r, offset) ==
    \E i \in 0..(Len(rowLines) - 1) :
       /\ At(rowLines, i) # <<>>
       /\ \/ ~InRange(s.spansPerLines, i)
          \/ \E k \in 1..Len(SearchMatches(At(rowLines, i), r, offset)) :
                LET m == SearchMatches(At(rowLines, i), r, offset)[k]
                    mapper == MapperOf(RowSpans(s, i))
                IN \/ ~InRange(mapper, SearchBytes(At(rowLines, i), m, offset)[1])
                   \/ ~InRange(mapper, SearchBytes(At(rowLines, i), m, offset)[2])

buildSearchIndexes(s, group, r, offset, y, maxY0) ==
    IF s.panicked THEN s
    ELSE LET textPerLines == Split(s.text)
             maxY == IF maxY0 <= 0 \/ maxY0 > Len(textPerLines)
                     THEN Len(textPerLines) ELSE maxY0
         IN IF y > maxY THEN Panic(s)
            ELSE LET rowLines == SubSeq(textPerLines, y + 1, maxY)
                 IN IF SearchRowsPanics(s, rowLines, r, offset) THEN Panic(s)
                    ELSE [s EXCEPT !.motionIndexes[group] =
                                      SearchRows(s, rowLines, 0, r, offset)]

AcceptRuneTil(s, r) == buildSearchIndexes(s, "t", <<r>>, -1, 0, 0)
AcceptRuneTilBack(s, r) == buildSearchIndexes(s, "T", <<r>>, 1, 0, 0)
\* a find that builds the index as til does
AcceptRuneFindAsTil(s, r) == buildSearchIndexes(s, "f", <<r>>, -1, 0, 0)

AcceptRuneFind(s, r) == buildSearchIndexes(s, "f", <<r>>, 0, 0, 0)

----------------------------------------------------------------------------
(* Inside and around: the pair of cursors that surround the cursor *)

matchBlocks == {"{", "}", "[", "]", "(", ")", "\"", "'", BQ}
directionlessMatchBlocks == {"\"", BQ, "'"}
matchBlockDirection(r) == IF r \in {"{", "[", "("} THEN 1 ELSE -1
matchingBlock(r) ==
    CASE r = "{" -> "}" [] r = "}" -> "{"
      [] r = "[" -> "]" [] r = "]" -> "["
      [] r = "(" -> ")" [] r = ")" -> "("
      [] OTHER -> r

\* the positions GetMatchingBlock visits for a bracket at from, in order
ScanPositions(s, from, direction) ==
    IF direction > 0
    THEN Concat([i \in 1..(Rows(s) - from[1]) |->
            LET row == from[1] + i - 1
                n == Len(RowSpans(s, row))
                skip == IF i = 1 THEN from[2] + 1 ELSE 0
            IN [j \in 1..(n - skip) |-> <<row, skip + j - 1>>]])
    ELSE Concat([i \in 1..(from[1] + 1) |->
            LET row == from[1] - (i - 1)
                n == IF i = 1 THEN from[2] ELSE Len(RowSpans(s, row))
            IN [j \in 1..n |-> <<row, n - j>>]])

\* the nesting count over the visited positions: the position where it reaches 0
RECURSIVE MatchScan(_, _, _, _, _, _)
MatchScan(s, ps, k, n, r, from) ==
    IF k > Len(ps) THEN from
    ELSE LET span == At(RowSpans(s, ps[k][1]), ps[k][2])
             n1 == IF span.runes # <<>> /\ span.runes[1] = r THEN n + 1 ELSE n
             n2 == IF span.runes # <<>> /\ span.runes[1] = matchingBlock(r)
                   THEN n1 - 1 ELSE n1
         IN IF n2 = 0 THEN ps[k] ELSE MatchScan(s, ps, k + 1, n2, r, from)

\* the entry of a quote's own index that pairs with the entry at from
PairedEntry(ix, from) ==
    IF ~\E i \in 0..(Len(ix) - 1) : EntryPos(ix, i) = from THEN from
    ELSE LET i == CHOOSE x \in 0..(Len(ix) - 1) :
                     /\ EntryPos(ix, x) = from
                     /\ \A y \in 0..(x - 1) : EntryPos(ix, y) # from
             target == IF (i + 1) % 2 = 0 THEN i - 1 ELSE i + 1
         IN IF target < 0 \/ target > Len(ix) - 1 THEN from ELSE EntryPos(ix, target)

\* GetMatchingBlock: the editor after the call (a quote builds its own index)
\* and the cursor returned
GetMatchingBlock(s, from) ==
    IF s.panicked THEN [s |-> s, c |-> from]
    ELSE IF from[1] < 0 \/ from[1] > Rows(s) - 1 THEN [s |-> s, c |-> from]
    ELSE IF from[2] < 0 \/ from[2] > Len(RowSpans(s, from[1])) - 1
    THEN [s |-> s, c |-> from]
    ELSE IF At(RowSpans(s, from[1]), from[2]).runes = <<>> THEN [s |-> s, c |-> from]
    ELSE LET r == At(RowSpans(s, from[1]), from[2]).runes[1]
         IN IF r \notin matchBlocks THEN [s |-> s, c |-> from]
            ELSE IF r \notin directionlessMatchBlocks
            THEN [s |-> s,
                  c |-> MatchScan(s, ScanPositions(s, from, matchBlockDirection(r)),
                                  1, 1, r, from)]
            ELSE LET s1 == buildSearchIndexes(s, r, <<r>>, 0, 0, 0)
                 IN IF s1.panicked THEN [s |-> s1, c |-> from]
                    ELSE [s |-> s1, c |-> PairedEntry(s1.motionIndexes[r], from)]

\* the loop of buildSurroundIndexes from its k-th iteration on: the editor, the
\* two cursors, and whether the function returned from inside the loop
RECURSIVE SurroundLoop(_, _, _, _, _, _, _)

\* the iteration after GetMatchingBlock returned mb for the opening cursor
SurroundMatched(s, k, total, left, i, opening, mb) ==
    IF mb.s.panicked
    THEN [s |-> mb.s, opening |-> opening, closing |-> mb.c, returned |-> TRUE]
    ELSE IF opening = mb.c
    THEN [s |-> [mb.s EXCEPT !.motionIndexes["s"] = NoIndex],
          opening |-> opening, closing |-> mb.c, returned |-> TRUE]
    ELSE IF left /\ CursorLess(mb.c, s.cursor)
    THEN IF GetPrevMotionCursor(mb.s, "s", i + 1, s.cursor, FALSE).c = opening
         THEN SurroundLoop(mb.s, k + 1, total, FALSE, 1, opening, mb.c)
         ELSE SurroundLoop(mb.s, k + 1, total, left, i + 1, opening, mb.c)
    ELSE [s |-> mb.s, opening |-> opening, closing |-> mb.c, returned |-> FALSE]

\* the iteration after the lookup of the opening cursor returned res
SurroundOpening(s, k, total, left, i, closing0, res) ==
    IF ~left /\ ~res.found
    THEN [s |-> [s EXCEPT !.motionIndexes["s"] = NoIndex], opening |-> res.c,
          closing |-> closing0, returned |-> TRUE]
    ELSE IF left /\ ~res.found
    THEN SurroundLoop(s, k + 1, total, FALSE, 1, res.c, closing0)
    ELSE SurroundMatched(s, k, total, left, i, res.c, GetMatchingBlock(s, res.c))

SurroundLoop(s, k, total, left, i, opening0, closing0) ==
    IF s.panicked \/ k >= total
    THEN [s |-> s, opening |-> opening0, closing |-> closing0, returned |-> FALSE]
    ELSE SurroundOpening(s, k, total, left, i, closing0,
                         IF left THEN GetPrevMotionCursor(s, "s", i, s.cursor, TRUE)
                         ELSE GetNextMotionCursor(s, "s", i, s.cursor, FALSE))

\* the r == 'w' and r == 'W' cases: the word around the cursor
SurroundWord(s, back, forward) ==
    LET o == GetPrevMotionCursor(s, back, 1, s.cursor, TRUE)
        c == GetNextMotionCursor(s, forward, 1, s.cursor, TRUE)
    IN IF ~o.found \/ ~c.found THEN s
       ELSE [s EXCEPT !.motionIndexes["s"] =
                         << <<o.c[1], o.c[2], o.c[2]>>, <<c.c[1], c.c[2], c.c[2]>> >>]

\* the two entries left in the index after the loop ended with l
SurroundEntries(l, offset) ==
    IF l.s.panicked \/ l.returned THEN l.s
    ELSE [l.s EXCEPT !.motionIndexes["s"] =
            << <<l.opening[1], l.opening[2] + offset, l.opening[2] + offset>>,
               <<l.closing[1], l.closing[2] - offset, l.closing[2] - offset>> >>]

\* buildSurroundIndexes once the occurrences of the block rune are indexed
SurroundFrom(s1, inside) ==
    IF s1.panicked \/ s1.motionIndexes["s"] = NoIndex THEN s1
    ELSE SurroundEntries(SurroundLoop(s1, 0, Len(s1.motionIndexes["s"]), TRUE, 1,
                                      <<0, 0>>, <<0, 0>>),
                         IF inside THEN 1 ELSE 0)

buildSurroundIndexes(s, r0, inside) ==
    IF s.panicked THEN s
    ELSE IF r0 = "w" THEN SurroundWord(s, "w", "e")
    ELSE IF r0 = "W" THEN SurroundWord(s, "W", "E")
    ELSE IF r0 \notin matchBlocks THEN s
    ELSE SurroundFrom(
            buildSearchIndexes(s, "s",
               <<IF r0 \notin directionlessMatchBlocks /\ matchBlockDirection(r0) < 0
                 THEN matchingBlock(r0) ELSE r0>>, 0, 0, 0),
            inside)

AcceptRuneInside(s, r) == buildSurroundIndexes(s, r, TRUE)
AcceptRuneAround(s, r) == buildSurroundIndexes(s, r, FALSE)

RuneRunnerActions == {"til", "til_back", "find", "find_back", "inside", "around"}

runeRunner(s, action, r) ==
    CASE action = "til" -> AcceptRuneTil(s, r)
      [] action = "til_back" -> AcceptRuneTilBack(s, r)
      [] action = "find" -> AcceptRuneFind(s, r)
      [] action = "find_back" -> AcceptRuneFind(s, r)
      [] action = "inside" -> AcceptRuneInside(s, r)
      [] action = "around" -> AcceptRuneAround(s, r)

\* the value a motion returns when it waits for more input
AsyncMotion == <<-1, -1>>

WaitingForMotion(s) == [s EXCEPT !.waitingForMotion = TRUE]

\* with a pending change or delete the target is one column further
AfterTarget(s, res) ==
    IF /\ res.found
       /\ s.pendingAction \notin {ActionNone, "visual", "yank"}
       /\ res.c # s.cursor
    THEN <<res.c[1], res.c[2] + 1>> ELSE res.c

GetTilCursor(s) ==
    AfterTarget(s, GetNextMotionCursor(s, "t", getActionCount(s), s.cursor, FALSE))
GetTilBackCursor(s) ==
    AfterTarget(s, GetPrevMotionCursor(s, "T", getActionCount(s), s.cursor, FALSE))
GetFindCursor(s) ==
    AfterTarget(s, GetNextMotionCursor(s, "f", getActionCount(s), s.cursor, FALSE))
GetFindBackCursor(s) ==
    GetPrevMotionCursor(s, "f", getActionCount(s), s.cursor, FALSE).c

RuneMotionActions == {"til", "til_back", "find", "find_back"}

runeMotionRunner(s, action) ==
    CASE action = "til" -> GetTilCursor(s)
      [] action = "til_back" -> GetTilBackCursor(s)
      [] action = "find" -> GetFindCursor(s)
      [] action = "find_back" -> GetFindBackCursor(s)

\* New, with t as the text it sets, in a box of inner size b
New(t, b) ==
    SetText([text |-> <<>>, spansPerLines |-> <<>>, cursor |-> <<0, 0>>,
             mode |-> "normal", undoStack |-> <<>>, undoOffset |-> 0,
             editCount |-> 0, motionIndexes |-> EmptyIndexes, offsets |-> <<0, 0>>,
             pending |-> <<>>, pendingCount |-> 0, pendingAction |-> ActionNone,
             lastMotion |-> ActionNone, waitingForMotion |-> FALSE,
             visualStart |-> <<0, 0>>, yankOnVisual |-> FALSE, box |-> b,
             clipboard |-> <<>>, workers |-> {}, delayed |-> 0,
             searchEditor |-> <<>>, flashIndexes |-> {}, prompt |-> NoPrompt,
             exited |-> FALSE, oneLineMode |-> FALSE,
             drawLoop |-> [pc |-> "select", args |-> <<>>], panicked |-> FALSE],
            t, <<0, 0>>)

SetOneLineMode(s, b) == [s EXCEPT !.oneLineMode = b]

\* EnableSearch: a one-line editor in Insert mode takes the key focus
SearchActions == {"enable_search", "flash"}
EnableSearch(s) ==
    LET se == [New(<<>>, <<s.box[1], 1>>) EXCEPT !.oneLineMode = TRUE,
                                                  !.mode = "insert",
                                                  !.prompt = "search"]
    IN [s |-> [s EXCEPT !.searchEditor = <<se>>, !.waitingForMotion = TRUE],
        m |-> AsyncMotion]

\* Flash: a one-line editor in Insert mode takes the key focus; its callbacks
\* are those of the flash prompt
Flash(s) ==
    LET se == [New(<<>>, <<s.box[1], 1>>) EXCEPT !.oneLineMode = TRUE,
                                                  !.mode = "insert",
                                                  !.prompt = "flash"]
    IN [s |-> [s EXCEPT !.searchEditor = <<se>>, !.waitingForMotion = TRUE],
        m |-> AsyncMotion]

\* GetSearchCursor that looks for the match before the cursor
GetSearchCursorBack(s) ==
    GetPrevMotionCursor(s, "n", getActionCount(s), s.cursor, FALSE).c

GetSearchCursor(s) ==
    GetNextMotionCursor(s, "n", getActionCount(s), s.cursor, FALSE).c

\* GetInsideOrAroundCursor: the editor after the call and the value returned
SurroundActions == {"inside", "around"}

\* GetInsideOrAroundCursor without the extra column for a pending change or delete
GetInsideOrAroundCursorNoBump(s) ==
    IF ~s.waitingForMotion THEN [s |-> WaitingForMotion(s), m |-> AsyncMotion]
    ELSE LET ix == s.motionIndexes["s"]
         IN IF ix = NoIndex \/ Len(ix) # 2 THEN [s |-> s, m |-> s.cursor]
            ELSE [s |-> SetMode(MoveCursorTo(SetMode(s, "visual"), EntryPos(ix, 0)),
                                s.mode),
                  m |-> EntryPos(ix, 1)]

GetInsideOrAroundCursor(s) ==
    IF ~s.waitingForMotion THEN [s |-> WaitingForMotion(s), m |-> AsyncMotion]
    ELSE LET ix == s.motionIndexes["s"]
         IN IF ix = NoIndex \/ Len(ix) # 2 THEN [s |-> s, m |-> s.cursor]
            ELSE LET s1 == SetMode(MoveCursorTo(SetMode(s, "visual"), EntryPos(ix, 0)),
                                   s.mode)
                     c == EntryPos(ix, 1)
                 IN [s |-> s1,
                     m |-> IF s.pendingAction \notin {ActionNone, "visual", "yank"}
                           THEN <<c[1], c[2] + 1>> ELSE c]

IsMotion(action) ==
    action \in MotionActions \cup RuneMotionActions \cup SurroundActions
               \cup SearchActions
IsOperatorlessMotion(action) ==
    action \in OperatorlessMotionActions \cup RuneMotionActions \cup SearchActions
IsCountlessMotion(action) == action \in CountlessMotionActions
IsOperator(action) == action \in OperatorActions
IsWaitingForRune(action) == action \in WaitingForRuneActions

\* Editor.motionRunner[action](): the editor after the call and the value returned
RunMotion(s, action) ==
    IF action \in SurroundActions THEN GetInsideOrAroundCursor(s)
    ELSE IF action = "flash" THEN Flash(s)
    ELSE IF action \in SearchActions THEN EnableSearch(s)
    ELSE IF action \in RuneMotionActions
    THEN IF ~s.waitingForMotion
         THEN [s |-> WaitingForMotion(s), m |-> AsyncMotion]
         ELSE [s |-> s, m |-> runeMotionRunner(s, action)]
    ELSE IF motionRunnerPanics(s, action) THEN [s |-> Panic(s), m |-> s.cursor]
    ELSE [s |-> s, m |-> motionRunner(s, action)]

MoveMotion(s, motion, n) ==
    IF s.panicked THEN s
    ELSE IF n < 0
    THEN SetCursor(s, GetPrevMotionCursor(s, motion, -n, s.cursor, FALSE).c)
    ELSE SetCursor(s, GetNextMotionCursor(s, motion, n, s.cursor, FALSE).c)

\* strings.Contains(e.lastMotion.String(), "back")
IsBackMotion(action) == action \in {"til_back", "find_back"}

MoveNextFind(s) ==
    IF s.motionIndexes["f"] # NoIndex /\ ~IsBackMotion(s.lastMotion)
    THEN MoveMotion(s, "f", getActionCount(s))
    ELSE IF s.motionIndexes["f"] # NoIndex THEN MoveMotion(s, "f", -getActionCount(s))
    ELSE IF s.motionIndexes["t"] # NoIndex THEN MoveMotion(s, "t", getActionCount(s))
    ELSE IF s.motionIndexes["T"] # NoIndex THEN MoveMotion(s, "T", -getActionCount(s))
    ELSE s

MovePrevFind(s) ==
    IF s.motionIndexes["f"] # NoIndex /\ ~IsBackMotion(s.lastMotion)
    THEN MoveMotion(s, "f", -getActionCount(s))
    ELSE IF s.motionIndexes["f"] # NoIndex THEN MoveMotion(s, "f", getActionCount(s))
    ELSE IF s.motionIndexes["t"] # NoIndex THEN MoveMotion(s, "t", -getActionCount(s))
    ELSE IF s.motionIndexes["T"] # NoIndex THEN MoveMotion(s, "T", getActionCount(s))
    ELSE s

MoveNextSearch(s) == MoveMotion(s, "n", getActionCount(s))
MovePrevSearch(s) == MoveMotion(s, "n", -getActionCount(s))

HasActionRunner(action) ==
    action \in OtherActions \cup {"move_next_find", "move_prev_find",
                                  "move_next_search", "move_prev_search"}

RunAction(s, action) ==
    CASE action = "move_next_find" -> MoveNextFind(s)
      [] action = "move_prev_find" -> MovePrevFind(s)
      [] action = "move_next_search" -> MoveNextSearch(s)
      [] action = "move_prev_search" -> MovePrevSearch(s)
      [] OTHER -> actionRunner(s, action)

----------------------------------------------------------------------------
(* Key events and the keymap *)

\* package keymap: a keyTree is a map from the path of a node to the node; childs
\* is <<>> for a nil map and <<the set of its keys>> otherwise
NoNode == [actions |-> <<>>, anyStartWith |-> FALSE]
EmptyTree == (<<>> :> [childs |-> <<>>, actions |-> <<>>])
NoTrees == [g \in {} |-> EmptyTree]

\* keyTree.Add on the node at path at
RECURSIVE keyTreeAdd(_, _, _, _)
keyTreeAdd(t, at, keys, action) ==
    LET t1 == IF t[at].childs = <<>> THEN [t EXCEPT ![at].childs = <<{}>>] ELSE t
    IN IF Len(keys) = 0 THEN [t1 EXCEPT ![at].actions = Append(@, action)]
       ELSE LET child == Append(at, keys[1])
                t2 == IF keys[1] \in t1[at].childs[1] THEN t1
                      ELSE [t1 EXCEPT ![at].childs = <<@[1] \cup {keys[1]}>>]
                           @@ (child :> [childs |-> <<>>, actions |-> <<>>])
            IN keyTreeAdd(t2, child, Tail(keys), action)

\* keyTree.Get that reports a non-nil childs map as deeper bindings
RECURSIVE keyTreeGetNonNil(_, _, _)
keyTreeGetNonNil(t, at, keys) ==
    IF Len(keys) = 0
    THEN [actions |-> t[at].actions, anyStartWith |-> t[at].childs # <<>>]
    ELSE IF t[at].childs = <<>> \/ keys[1] \notin t[at].childs[1] THEN NoNode
    ELSE keyTreeGetNonNil(t, Append(at, keys[1]), Tail(keys))

\* keyTree.Get on the node at path at; a nil child returns nil, false
RECURSIVE keyTreeGet(_, _, _)
keyTreeGet(t, at, keys) ==
    IF Len(keys) = 0
    THEN [actions |-> t[at].actions,
          anyStartWith |-> t[at].childs # <<>> /\ t[at].childs[1] # {}]
    ELSE IF t[at].childs = <<>> \/ keys[1] \notin t[at].childs[1] THEN NoNode
    ELSE keyTreeGet(t, Append(at, keys[1]), Tail(keys))

\* Keymapper.Get on the trees m
KeymapperGet(m, keys, group) ==
    IF group \notin DOMAIN m THEN NoNode ELSE keyTreeGet(m[group], <<>>, keys)

\* for _, k := range keymap.AllPossibleKeys.Keys { m[group].Add(k, ...) }
RECURSIVE AddAllKeys(_, _, _, _)
AddAllKeys(t, allKeys, i, action) ==
    IF i > Len(allKeys) THEN t
    ELSE AddAllKeys(keyTreeAdd(t, <<>>, allKeys[i], action), allKeys, i + 1, action)

\* the body of the loop of keyTreePerGroupFromJSONString for one keymap entry,
\* from its i-th group on
RECURSIVE AddKeymap(_, _, _, _)
AddKeymap(m, namespace, keymap, i) ==
    IF i > Len(keymap.groups) THEN m
    ELSE LET group == keymap.groups[i]
             m1 == IF group \in DOMAIN m THEN m ELSE m @@ (group :> EmptyTree)
             m2 == [m1 EXCEPT ![group] =
                       AddAllKeys(@, keymap.keys, 1, namespace \o "." \o keymap.action)]
         IN AddKeymap(m2, namespace, keymap, i + 1)

SpecialKeys == {"esc", "enter", "tab", "backspace", "backspace2", "ctrl+r",
                "ctrl+d", "ctrl+u"}
IsRune(key) == key \notin SpecialKeys
\* unicode.IsDigit and int(r - '0')
IsDigit(key) == key \in Digits
DigitValue(key) == CHOOSE d \in 0..9 : ToString(d) = key

\* the bindings of the embedded keymap file, in file order: vi's usual keys
Keymap ==
    << [keys |-> <<"h">>, action |-> "editor.move_left", groups |-> {"n", "v"}],
       [keys |-> <<"l">>, action |-> "editor.move_right", groups |-> {"n", "v"}],
       [keys |-> <<"k">>, action |-> "editor.move_up", groups |-> {"n", "v"}],
       [keys |-> <<"j">>, action |-> "editor.move_down", groups |-> {"n", "v"}],
       [keys |-> <<"0">>, action |-> "editor.move_start_of_line", groups |-> {"n", "v"}],
       [keys |-> <<"$">>, action |-> "editor.move_end_of_line", groups |-> {"n", "v"}],
       [keys |-> <<"G">>, action |-> "editor.move_last_line", groups |-> {"n", "v"}],
       [keys |-> <<"g", "g">>, action |-> "editor.move_first_line", groups |-> {"n", "v"}],
       [keys |-> <<"w">>, action |-> "editor.move_start_of_word", groups |-> {"n", "v"}],
       [keys |-> <<"e">>, action |-> "editor.move_end_of_word", groups |-> {"n", "v"}],
       [keys |-> <<"b">>, action |-> "editor.move_back_start_of_word", groups |-> {"n", "v"}],
       [keys |-> <<"g", "e">>, action |-> "editor.move_back_end_of_word", groups |-> {"n", "v"}],
       [keys |-> <<"W">>, action |-> "editor.move_start_of_big_word", groups |-> {"n", "v"}],
       [keys |-> <<"E">>, action |-> "editor.move_end_of_big_word", groups |-> {"n", "v"}],
       [keys |-> <<"B">>, action |-> "editor.move_back_start_of_big_word", groups |-> {"n", "v"}],
       [keys |-> <<"g", "E">>, action |-> "editor.move_back_end_of_big_word", groups |-> {"n", "v"}],
       [keys |-> <<"f">>, action |-> "editor.find", groups |-> {"n", "v"}],
       [keys |-> <<"F">>, action |-> "editor.find_back", groups |-> {"n", "v"}],
       [keys |-> <<"t">>, action |-> "editor.til", groups |-> {"n", "v"}],
       [keys |-> <<"T">>, action |-> "editor.til_back", groups |-> {"n", "v"}],
       [keys |-> <<";">>, action |-> "editor.move_next_find", groups |-> {"n", "v"}],
       [keys |-> <<",">>, action |-> "editor.move_prev_find", groups |-> {"n", "v"}],
       [keys |-> <<"/">>, action |-> "editor.enable_search", groups |-> {"n", "v"}],
       [keys |-> <<"s">>, action |-> "editor.flash", groups |-> {"n", "v"}],
       [keys |-> <<"n">>, action |-> "editor.move_next_search", groups |-> {"n", "v"}],
       [keys |-> <<"N">>, action |-> "editor.move_prev_search", groups |-> {"n", "v"}],
       [keys |-> <<"d">>, action |-> "editor.delete", groups |-> {"n", "v"}],
       [keys |-> <<"c">>, action |-> "editor.change", groups |-> {"n", "v"}],
       [keys |-> <<"y">>, action |-> "editor.yank", groups |-> {"n", "v"}],
       [keys |-> <<"v">>, action |-> "editor.visual", groups |-> {"n", "v"}],
       [keys |-> <<"V">>, action |-> "editor.visual_line", groups |-> {"n", "v"}],
       [keys |-> <<"o">>, action |-> "editor.switch_visual_start", groups |-> {"v"}],
       [keys |-> <<"esc">>, action |-> "editor.exit", groups |-> {"n", "v", "on"}],
       [keys |-> <<"d", "d">>, action |-> "editor.delete_line", groups |-> {"n"}],
       [keys |-> <<"x">>, action |-> "editor.delete_under_cursor", groups |-> {"n"}],
       [keys |-> <<"D">>, action |-> "editor.delete_until_end_of_line", groups |-> {"n"}],
       [keys |-> <<"C">>, action |-> "editor.change_until_end_of_line", groups |-> {"n"}],
       [keys |-> <<"i">>, action |-> "editor.insert", groups |-> {"n"}],
       [keys |-> <<"a">>, action |-> "editor.insert_after", groups |-> {"n"}],
       [keys |-> <<"i">>, action |-> "editor.inside", groups |-> {"n", "v"}],
       [keys |-> <<"a">>, action |-> "editor.around", groups |-> {"n", "v"}],
       [keys |-> <<"A">>, action |-> "editor.insert_end_of_line", groups |-> {"n"}],
       [keys |-> <<"o">>, action |-> "editor.insert_below", groups |-> {"n"}],
       [keys |-> <<"O">>, action |-> "editor.insert_above", groups |-> {"n"}],
       [keys |-> <<"r">>, action |-> "editor.replace", groups |-> {"n"}],
       [keys |-> <<"p">>, action |-> "editor.paste_after", groups |-> {"n"}],
       [keys |-> <<"P">>, action |-> "editor.paste_before", groups |-> {"n"}],
       [keys |-> <<"u">>, action |-> "editor.undo", groups |-> {"n"}],
       [keys |-> <<"ctrl+r">>, action |-> "editor.redo", groups |-> {"n"}],
       [keys |-> <<"ctrl+d">>, action |-> "editor.move_half_page_down", groups |-> {"n", "v"}],
       [keys |-> <<"ctrl+u">>, action |-> "editor.move_half_page_up", groups |-> {"n", "v"}] >>

IsPrefix(p, q) == Len(p) <= Len(q) /\ SubSeq(q, 1, Len(p)) = p

\* Keymapper.Get: the actions added at the node of keys, and whether it has children
KeymapGet(keys, group) ==
    LET inGroup == SelectSeq(Keymap, LAMBDA b : group \in b.groups)
        exact == SelectSeq(inGroup, LAMBDA b : b.keys = keys)
    IN [actions |-> [k \in 1..Len(exact) |-> exact[k].action],
        anyStartWith |-> \E k \in 1..Len(inGroup) :
                            /\ IsPrefix(keys, inGroup[k].keys)
                            /\ inGroup[k].keys # keys]

ActionNames ==
    MotionActions \cup RuneMotionActions \cup SurroundActions \cup OperatorActions
    \cup OtherActions \cup SearchActions
    \cup {"move_next_find", "move_prev_find", "move_next_search", "move_prev_search"}

\* ActionFromString: reverseActionMapper["editor." + name], or ActionNone
ActionFromString(str) ==
    IF \E a \in ActionNames : str = "editor." \o a
    THEN CHOOSE a \in ActionNames : str = "editor." \o a
    ELSE ActionNone

\* mode.ShortString
ShortString(m) ==
    CASE m = "insert" -> "i"
      [] m = "replace" -> "r"
      [] m \in {"visual", "vline"} -> "v"
      [] OTHER -> "n"

\* the keymap group of a key event: one-line editors use the groups on, oi, or, ov
Group(s) == IF s.oneLineMode THEN "o" \o ShortString(s.mode) ELSE ShortString(s.mode)

----------------------------------------------------------------------------
(* The input dispatcher *)

\* ResetAction that leaves lastMotion as it is
\* ResetAction that leaves the pending count as it is
ResetActionKeepCount(s) ==
    IF s.panicked THEN s
    ELSE [s EXCEPT !.pendingAction = ActionNone, !.lastMotion = ActionNone,
                   !.pending = <<>>, !.waitingForMotion = FALSE]

ResetActionKeepMotion(s) ==
    IF s.panicked THEN s
    ELSE [s EXCEPT !.pendingAction = ActionNone,
                   !.pending = <<>>, !.pendingCount = 0, !.waitingForMotion = FALSE]

ResetAction(s) ==
    IF s.panicked THEN s
    ELSE [s EXCEPT !.pendingAction = ActionNone, !.lastMotion = ActionNone,
                   !.pending = <<>>, !.pendingCount = 0, !.waitingForMotion = FALSE]

\* ModeInsert: rune, Enter, Tab and Backspace edit the buffer directly
InsertText(s, str) ==
    DecUndoOffset(SaveChanges(MoveCursorRight(ReplaceText(s, str, s.cursor, s.cursor))))

InsertEnter(s) ==
    LET s1 == MoveCursorDown(ReplaceText(s, <<NL>>, s.cursor, s.cursor))
    IN DecUndoOffset(SaveChanges(SetCol(s1, 0)))

InsertBackspace(s) ==
    IF s.cursor[1] = 0 /\ s.cursor[2] = 0 THEN s
    ELSE LET from == IF s.cursor[2] = 0
                     THEN <<s.cursor[1] - 1, Len(RowSpans(s, s.cursor[1] - 1)) - 1>>
                     ELSE <<s.cursor[1], s.cursor[2] - 1>>
             until == IF s.cursor[2] = 0 THEN <<s.cursor[1], 0>> ELSE s.cursor
         IN DecUndoOffset(SaveChanges(SetCursor(ReplaceText(s, <<>>, from, until), from)))

InsertEsc(s) ==
    LET s1 == SetMode(s, "normal")
    IN IF s1.cursor[2] = Len(RowSpans(s1, s1.cursor[1])) - 1
       THEN MoveCursorLeft(s1) ELSE s1

ReplaceRune(s, key) ==
    SetMode(ReplaceText(s, <<key>>, s.cursor, <<s.cursor[1], s.cursor[2] + 1>>),
            "normal")

\* the keys the switch on e.mode handles before any keymap lookup
IsQuickKey(s, key) ==
    \/ s.mode = "replace" /\ (key = "esc" \/ IsRune(key))
    \/ s.mode = "insert"
       /\ (key \in {"esc", "enter", "tab", "backspace", "backspace2"} \/ IsRune(key))

QuickPath(s, key) ==
    IF s.mode = "replace"
    THEN IF key = "esc" THEN SetMode(s, "normal") ELSE ReplaceRune(s, key)
    ELSE CASE key = "esc" -> InsertEsc(s)
           [] key = "enter" -> InsertEnter(s)
           [] key = "tab" -> InsertText(s, <<TAB>>)
           [] key \in {"backspace", "backspace2"} -> InsertBackspace(s)
           [] OTHER -> InsertText(s, <<key>>)

\* the first motion among the actions bound to pending[1:]
RECURSIVE FirstMotion(_)
FirstMotion(actionStrings) ==
    IF actionStrings = <<>> THEN ActionNone
    ELSE IF IsMotion(ActionFromString(Head(actionStrings)))
    THEN ActionFromString(Head(actionStrings))
    ELSE FirstMotion(Tail(actionStrings))

\* NormalizeVLine that never exchanges the two ends
NormalizeVLineNoSwap(s) ==
    IF s.mode # "vline" THEN s
    ELSE [s EXCEPT !.cursor = <<s.cursor[1], 0>>,
                   !.visualStart = <<s.visualStart[1],
                                     Len(RowSpans(s, s.visualStart[1])) - 1>>]

\* VLine: the cursor goes to column 0 of the first row, visualStart to the end of the last
NormalizeVLine(s) ==
    IF s.mode # "vline" THEN s
    ELSE LET swap == CursorLess(s.visualStart, s.cursor)
             c == IF swap THEN s.visualStart ELSE s.cursor
             v == IF swap THEN s.cursor ELSE s.visualStart
         IN [s EXCEPT !.cursor = <<c[1], 0>>,
                      !.visualStart = <<v[1], Len(RowSpans(s, v[1])) - 1>>]

OperatorOnVisual(s, action) ==
    LET s1 == NormalizeVLine(s)
        s2 == operatorRunner(s1, action, s1.visualStart)
    IN ResetAction(IF s2.mode = s.mode THEN SetMode(s2, "normal") ELSE s2)

\* the end of the motion branch for the value r the motion runner returned
AfterMotion(r, action) ==
    IF r.s.panicked THEN r.s
    ELSE IF r.m = AsyncMotion THEN [r.s EXCEPT !.lastMotion = action]
    ELSE ResetAction(operatorRunner(r.s, r.s.pendingAction, r.m))

\* the action the k-th action string stands for, after the retry without the
\* first pending key
ActionAt(s, actionStrings, k, anyStartWith0) ==
    LET first == ActionFromString(actionStrings[k])
        retry == first = ActionNone /\ s.pendingAction # ActionNone /\ Len(s.pending) > 1
        got2 == KeymapGet(Tail(s.pending), Group(s))
        found2 == retry /\ FirstMotion(got2.actions) # ActionNone
    IN [action |-> IF found2 THEN FirstMotion(got2.actions) ELSE first,
        anyStartWith |-> IF found2 THEN got2.anyStartWith ELSE anyStartWith0]

\* a rune runner takes the key of a motion that waits for a rune
AcceptsRune(s) ==
    /\ s.waitingForMotion /\ IsWaitingForRune(s.lastMotion)
    /\ s.lastMotion \in RuneRunnerActions

\* one pass of the loop over actionStrings, from the k-th on; falling out of
\* the loop resets the pending state
RECURSIVE DispatchFrom(_, _, _, _, _)

\* the branches of one pass for the action found, s1 being the editor after the
\* rune runner
DispatchAction(s1, key, action, anyStartWith, actionStrings, k) ==
    IF s1.panicked THEN s1
    ELSE IF /\ IsOperator(action) /\ s1.mode \in {"visual", "vline"}
            /\ action \notin {"visual", "visual_line"}
    THEN OperatorOnVisual(s1, action)
    ELSE IF IsOperator(action) THEN [s1 EXCEPT !.pendingAction = action]
    ELSE IF /\ IsMotion(action)
            /\ (~IsCountlessMotion(action) \/ s1.pendingCount = 0)
            /\ (IsOperatorlessMotion(action) \/ s1.pendingAction # ActionNone)
    THEN AfterMotion(RunMotion(s1, action), action)
    ELSE IF HasActionRunner(action) THEN ResetAction(RunAction(s1, action))
    ELSE IF anyStartWith THEN s1
    ELSE IF IsDigit(key)
    THEN [s1 EXCEPT !.pendingCount = s1.pendingCount * 10 + DigitValue(key),
                    !.pending = SliceTo(s1.pending, Len(s1.pending) - 1)]
    ELSE DispatchFrom(s1, key, actionStrings, k + 1, anyStartWith)

DispatchFound(s, key, found, actionStrings, k) ==
    IF AcceptsRune(s)
    THEN DispatchAction(runeRunner(s, s.lastMotion, key), key, s.lastMotion,
                        found.anyStartWith, actionStrings, k)
    ELSE DispatchAction(s, key, found.action, found.anyStartWith, actionStrings, k)

DispatchFrom(s, key, actionStrings, k, anyStartWith0) ==
    IF k > Len(actionStrings) THEN ResetAction(s)
    ELSE IF s.waitingForMotion /\ ~IsRune(key) THEN ResetAction(s)
    ELSE DispatchFound(s, key, ActionAt(s, actionStrings, k, anyStartWith0),
                       actionStrings, k)

\* Editor.InputHandler of an editor that has the key focus itself
DispatchPending(s1, key, got) ==
    DispatchFrom(s1, key, IF got.actions = <<>> THEN <<"">> ELSE got.actions, 1,
                 got.anyStartWith)

EditorInput(s, key) ==
    IF IsQuickKey(s, key) THEN QuickPath(s, key)
    ELSE DispatchPending([s EXCEPT !.pending = Append(s.pending, key)], key,
                         KeymapGet(Append(s.pending, key), Group(s)))

\* the search target is handed to the pending operator
SearchApply(s1) == operatorRunner(s1, s1.pendingAction, GetSearchCursor(s1))
SearchClose(s2) ==
    IF s2.panicked THEN s2 ELSE ResetAction([s2 EXCEPT !.searchEditor = <<>>])

\* onDoneFunc of the search editor, called with the text typed into it
SearchDone(s, query) ==
    SearchClose(SearchApply(buildSearchIndexes(s, "n", query, 0, 0, 0)))

\* onExitFunc of the search editor
\* onExitFunc of the search editor that leaves the pending state as it is
SearchExitKeepPending(s) == [s EXCEPT !.searchEditor = <<>>]

SearchExit(s) == ResetAction([s EXCEPT !.searchEditor = <<>>])

----------------------------------------------------------------------------
(* The flash prompt: the callbacks Flash gives its one-line editor *)

flashAlphabet ==
    <<"a", "b", "c", "d", "e", "f", "g", "h", "i", "j", "k", "m", "n", "p", "q",
      "r", "t", "w", "x", "y", "z", "A", "B", "C", "D", "E", "F", "G", "H", "J",
      "K", "L", "M", "N", "P", "Q", "R", "T", "U", "V", "W", "X", "Y">>
\* the key under which the hook records the length of the last query
FlashLenKey == "#"

\* e.flashIndexes[r]: the entries under the key r (one at most)
FlashAt(fi, r) == {x \in fi : x.r = r}
\* e.flashIndexes[r] = c
FlashPut(fi, r, c) == (fi \ FlashAt(fi, r)) \cup {[r |-> r, c |-> c]}
\* e.flashIndexes['#'][0]: the zero value when the key is absent
FlashLastLen(fi) ==
    IF FlashAt(fi, FlashLenKey) = {} THEN 0
    ELSE (CHOOSE x \in FlashAt(fi, FlashLenKey) : TRUE).c[1]

\* flashIndexes and reverseFlashIndexes made anew, motionIndexes['Z'] = nil
ClearFlash(s) ==
    IF s.panicked THEN s
    ELSE [s EXCEPT !.flashIndexes = {}, !.motionIndexes["Z"] = NoIndex]

\* onDoneFunc and onExitFunc of the flash prompt
FlashDone(s) == ClearFlash(ResetAction([s EXCEPT !.searchEditor = <<>>]))
FlashExit(s) == ClearFlash(ResetAction([s EXCEPT !.searchEditor = <<>>]))

\* the pending operator is applied to the cell stored under the rune typed last
FlashJump(s, hit) ==
    ClearFlash(ResetAction(
        [operatorRunner(s, s.pendingAction, hit.c) EXCEPT !.searchEditor = <<>>]))

\* onTextChangedFunc, first part: the query grew and its last rune is a key of
\* flashIndexes
FlashSelect(s, q) ==
    IF ByteOff(q, Len(q)) > FlashLastLen(s.flashIndexes)
       /\ FlashAt(s.flashIndexes, q[Len(q)]) # {}
    THEN FlashJump(s, CHOOSE x \in FlashAt(s.flashIndexes, q[Len(q)]) : TRUE)
    ELSE s

\* the runes that follow a match of the query in its row
invalidFlash(s) ==
    LET ix == s.motionIndexes["Z"]
    IN {At(RowSpans(s, ix[k][1]), ix[k][3] + 1).runes[1] :
          k \in {j \in 1..Len(ix) : ix[j][3] < Len(RowSpans(s, ix[j][1])) - 2}}

\* |cursor col - match col| + |cursor row - match row|
FlashDistance(c, x) ==
    (IF c[2] >= x[2] THEN c[2] - x[2] ELSE x[2] - c[2])
    + (IF c[1] >= x[1] THEN c[1] - x[1] ELSE x[1] - c[1])

\* sort.Slice by the distance from the cursor: an insertion sort for the short
\* lists of a viewport, which keeps the order of matches equally far
RECURSIVE InsertByDistance(_, _, _)
InsertByDistance(sorted, x, c) ==
    IF sorted = <<>> THEN <<x>>
    ELSE IF FlashDistance(c, x) < FlashDistance(c, Head(sorted)) THEN <<x>> \o sorted
    ELSE <<Head(sorted)>> \o InsertByDistance(Tail(sorted), x, c)
RECURSIVE flashIndexesClosestCursor(_, _)
flashIndexesClosestCursor(ix, c) ==
    IF ix = <<>> THEN <<>>
    ELSE InsertByDistance(flashIndexesClosestCursor(SliceTo(ix, Len(ix) - 1), c),
                          ix[Len(ix)], c)

\* the loop over flashAlphabet from its a-th rune, i matches being labelled
RECURSIVE FlashAssign(_, _, _, _, _)
FlashAssign(fi, a, closest, i, invalid) ==
    IF a > Len(flashAlphabet) \/ i > Len(closest) - 1 THEN fi
    ELSE IF flashAlphabet[a] \in invalid
    THEN FlashAssign(fi, a + 1, closest, i, invalid)
    ELSE FlashAssign(FlashPut(fi, flashAlphabet[a], EntryPos(closest, i)),
                     a + 1, closest, i + 1, invalid)

\* onTextChangedFunc, last part: the labels of the matches of the new index
FlashLabel(s1) ==
    IF s1.panicked THEN s1
    ELSE IF s1.motionIndexes["Z"] = NoIndex THEN s1
    ELSE [s1 EXCEPT !.flashIndexes =
            FlashAssign(s1.flashIndexes, 1,
                        flashIndexesClosestCursor(s1.motionIndexes["Z"], s1.cursor),
                        0, invalidFlash(s1))]

\* onTextChangedFunc, middle part: the query length is recorded and the rows of
\* the viewport are searched
FlashSearch(s1, q) ==
    IF s1.panicked THEN s1
    ELSE FlashLabel(buildSearchIndexes(
            [s1 EXCEPT !.flashIndexes =
                {[r |-> FlashLenKey, c |-> <<ByteOff(q, Len(q)), 0>>]}],
            "Z", q, 0, s1.offsets[1], s1.offsets[1] + s1.box[2] - 1))

\* onTextChangedFunc of the flash prompt, called by the prompt's SetText with
\* its new text
FlashTextChanged(s, q) ==
    IF s.panicked THEN s
    ELSE IF Len(q) < 1 THEN ClearFlash(s)
    ELSE FlashSearch(FlashSelect(s, q), q)

\* the main editor after its search editor handled a key and became se1: the
\* prompt may have called its onExitFunc, or its SetText the onTextChangedFunc
SearchHandled(s, se1) ==
    IF se1.panicked THEN Panic(s)
    ELSE IF se1.exited
    THEN (IF se1.prompt = "flash" THEN FlashExit(s) ELSE SearchExit(s))
    ELSE IF se1.prompt = "flash" /\ se1.editCount > s.searchEditor[1].editCount
    THEN FlashTextChanged([s EXCEPT !.searchEditor = <<se1>>], se1.text)
    ELSE [s EXCEPT !.searchEditor = <<se1>>]

\* the editor that has the key focus
Focused(s) == IF s.searchEditor = <<>> THEN s ELSE s.searchEditor[1]

\* the focused editor handled the key and became r
Handled(s, r) == IF s.searchEditor = <<>> THEN r ELSE SearchHandled(s, r)

\* Editor.InputHandler for one key event: an open search editor gets the key, and
\* Enter in its Insert mode calls its onDoneFunc instead of breaking the line
InputHandler(s, key) ==
    IF s.panicked THEN s
    ELSE IF /\ s.searchEditor # <<>> /\ key = "enter"
            /\ s.searchEditor[1].mode = "insert" /\ s.searchEditor[1].oneLineMode
    THEN (IF s.searchEditor[1].prompt = "flash" THEN FlashDone(s)
          ELSE SearchDone(s, s.searchEditor[1].text))
    ELSE Handled(s, EditorInput(Focused(s), key))

----------------------------------------------------------------------------
(* Editor.Draw: the offsets it repairs before it paints the visible rows *)

Draw(s) ==
    IF s.panicked THEN s
    ELSE IF ~InRange(s.spansPerLines, s.cursor[1]) THEN Panic(s)
    ELSE LET w == s.box[1]
             h == TextRows(s)
             r1 == IF s.cursor[1] < s.offsets[1] THEN s.cursor[1] ELSE s.offsets[1]
             r2 == IF s.cursor[1] >= r1 + h THEN s.cursor[1] - h + 1 ELSE r1
             r3 == IF r2 + h > Rows(s) THEN Max(Rows(s) - h, 0) ELSE r2
         IN IF ~SliceOk(RowSpans(s, s.cursor[1]), s.cursor[2]) THEN Panic(s)
            ELSE LET cursorX == WidthTo(RowSpans(s, s.cursor[1]), s.cursor[2])
                     c1 == IF cursorX < s.offsets[2] THEN Max(cursorX - 1, 0)
                           ELSE s.offsets[2]
                     c2 == IF cursorX > c1 + w THEN cursorX - w + 1 ELSE c1
                     lastLine == Min(r3 + h, Rows(s))
                     s1 == [s EXCEPT !.offsets = <<r3, c2>>]
                 IN IF r3 < 0 \/ r3 > lastLine THEN Panic(s1) ELSE s1

----------------------------------------------------------------------------
(* The state machine: key events and draws of the UI loop, and the steps of  *)
(* the index goroutines                                                       *)

\* what the history keeps of the state an event found
Snap ==
    [text |-> text, cursor |-> cursor, mode |-> mode, undoStack |-> undoStack,
     undoOffset |-> undoOffset, editCount |-> editCount, pending |-> pending,
     pendingCount |-> pendingCount, pendingAction |-> pendingAction,
     waitingForMotion |-> waitingForMotion, offsets |-> offsets,
     clipboard |-> clipboard, motionIndexes |-> motionIndexes,
     lastMotion |-> lastMotion, promptOpen |-> searchEditor # <<>>,
     prompt |-> IF searchEditor = <<>> THEN NoPrompt ELSE searchEditor[1].prompt,
     promptText |-> IF searchEditor = <<>> THEN <<>> ELSE searchEditor[1].text,
     promptMode |-> IF searchEditor = <<>> THEN "normal" ELSE searchEditor[1].mode,
     flashIndexes |-> flashIndexes, visualStart |-> visualStart,
     spansPerLines |-> spansPerLines, yankOnVisual |-> yankOnVisual,
     delayed |-> delayed]

DrawKey == "<draw>"

InitAs(s) ==
    /\ text = s.text
    /\ spansPerLines = s.spansPerLines
    /\ cursor = s.cursor
    /\ mode = s.mode
    /\ undoStack = s.undoStack
    /\ undoOffset = s.undoOffset
    /\ editCount = s.editCount
    /\ motionIndexes = s.motionIndexes
    /\ offsets = s.offsets
    /\ pending = s.pending
    /\ pendingCount = s.pendingCount
    /\ pendingAction = s.pendingAction
    /\ lastMotion = s.lastMotion
    /\ waitingForMotion = s.waitingForMotion
    /\ visualStart = s.visualStart
    /\ yankOnVisual = s.yankOnVisual
    /\ box = s.box
    /\ clipboard = s.clipboard
    /\ workers = s.workers
    /\ delayed = s.delayed
    /\ searchEditor = s.searchEditor
    /\ flashIndexes = s.flashIndexes
    /\ oneLineMode = s.oneLineMode
    /\ drawLoop = s.drawLoop
    /\ keyTreePerGroup = NoTrees
    /\ panicked = s.panicked
    /\ log = <<>>

\* the largest pending count the model lets the user type
MaxCount == 9

\* the UI loop hands one key event to InputHandler
KeyEvent(key, maxEvents) ==
    /\ ~panicked
    /\ Len(log) < maxEvents
    /\ (IsDigit(key) /\ mode \notin {"insert", "replace"})
          => pendingCount * 10 + DigitValue(key) <= MaxCount
    /\ Commit(InputHandler(St, key))
    /\ log' = Append(log, [key |-> key, pre |-> Snap])

\* the UI loop draws the editor
DrawEvent(maxEvents) ==
    /\ ~panicked
    /\ Len(log) < maxEvents
    /\ Commit(Draw(St))
    /\ log' = Append(log, [key |-> DrawKey, pre |-> Snap])

\* the host runs a callback that YankUntil queued
DelayedKey == "<delayed>"
DelayedEvent(maxEvents) ==
    /\ ~panicked
    /\ Len(log) < maxEvents
    /\ delayed > 0
    /\ Commit(YankCallback([St EXCEPT !.delayed = @ - 1]))
    /\ log' = Append(log, [key |-> DelayedKey, pre |-> Snap])

mainVars == <<text, spansPerLines, cursor, mode, undoStack, undoOffset, editCount,
              offsets, pending, pendingCount, pendingAction, lastMotion,
              waitingForMotion, visualStart, yankOnVisual, box, clipboard,
              delayed, searchEditor, flashIndexes, oneLineMode, drawLoop,
              keyTreePerGroup, log>>

\* one iteration of a worker's loop over the rows of its text
WorkerLoop(w) ==
    /\ ~panicked
    /\ w \in workers /\ w.pc = "loop"
    /\ IF editCount > w.editCount
       THEN workers' = workers \ {w} /\ panicked' = FALSE
       ELSE IF At(w.linePanics, w.i)
       THEN workers' = workers /\ panicked' = TRUE
       ELSE /\ workers' = (workers \ {w}) \cup
                  {[w EXCEPT !.indexes = @ \o At(w.lineEntries, w.i),
                             !.i = @ + 1,
                             !.pc = IF w.i + 1 >= w.rows THEN "check" ELSE "loop"]}
            /\ panicked' = FALSE
    /\ UNCHANGED <<mainVars, motionIndexes>>

\* after the loop: the sort, and the last comparison of the edit counters
WorkerCheck(w) ==
    /\ ~panicked
    /\ w \in workers /\ w.pc = "check"
    /\ workers' = IF editCount > w.editCount THEN workers \ {w}
                  ELSE (workers \ {w}) \cup
                       {[w EXCEPT !.indexes = w.sorted, !.pc = "publish"]}
    /\ UNCHANGED <<mainVars, motionIndexes, panicked>>

\* e.motionIndexes[kind] = indexes under the mutex, which the UI loop never
\* takes: when SetText has replaced the map since the check, the write goes
\* to the map the goroutine's unsynchronised read of the field yields, the
\* new one or the one it replaced
WorkerPublish(w) ==
    /\ ~panicked
    /\ w \in workers /\ w.pc = "publish"
    /\ \/ motionIndexes' = [motionIndexes EXCEPT ![w.kind] = w.indexes]
       \/ editCount > w.editCount /\ motionIndexes' = motionIndexes
    /\ workers' = workers \ {w}
    /\ UNCHANGED <<mainVars, panicked>>

WorkerStep == \E w \in workers : WorkerLoop(w) \/ WorkerCheck(w) \/ WorkerPublish(w)

\* the schedule in which every goroutine runs to its end before the next event
RunWorkers ==
    /\ ~panicked
    /\ workers # {}
    /\ LET cur == {w \in workers : w.editCount = editCount /\ w.pc = "loop" /\ w.i = 0}
           bad == \E w \in cur : \E i \in 1..w.rows : w.linePanics[i]
       IN IF bad THEN /\ panicked' = TRUE
                      /\ UNCHANGED <<workers, motionIndexes>>
          ELSE /\ panicked' = FALSE
               /\ workers' = {}
               /\ motionIndexes' =
                    [k \in DOMAIN motionIndexes |->
                       IF \E w \in cur : w.kind = k
                       THEN (CHOOSE x \in cur : x.kind = k).sorted
                       ELSE motionIndexes[k]]
    /\ UNCHANGED mainVars

----------------------------------------------------------------------------
(* The history: which events were edits, undos and redos *)

\* the state event k left behind
PostOf(k) == IF k < Len(log) THEN log[k + 1].pre ELSE Snap

\* event k was dispatched in Normal mode with nothing pending but a count
PlainNormal(k) ==
    /\ log[k].pre.mode = "normal"
    /\ log[k].pre.pending = <<>>
    /\ log[k].pre.pendingAction = ActionNone
    /\ ~log[k].pre.waitingForMotion

IsUndoEvent(k) == log[k].key = "u" /\ PlainNormal(k)
IsRedoEvent(k) == log[k].key = "ctrl+r" /\ PlainNormal(k)

\* event k replaced the text, and was neither an undo nor a redo
IsEditEvent(k) ==
    /\ log[k].key \notin {DrawKey, DelayedKey}
    /\ ~IsUndoEvent(k) /\ ~IsRedoEvent(k)
    /\ PostOf(k).editCount > log[k].pre.editCount

\* event k typed a rune in Insert mode
IsInsertRune(k) ==
    /\ log[k].pre.mode = "insert"
    /\ IsRune(log[k].key) /\ log[k].key \notin {DrawKey, DelayedKey}

----------------------------------------------------------------------------
(* Insert sessions: enter Insert mode, type, leave with Esc, undo *)

MaxInsertEvents == 8
InsertSessionKeys == {"i", "a", "esc", "u"}
InsertSessionTexts == {<<>>, <<"a", "b">>}

InitInsert == \E t \in InsertSessionTexts : InitAs(New(t, <<4, 3>>))
NextInsert == \E key \in InsertSessionKeys : KeyEvent(key, MaxInsertEvents)
SpecInsert == InitInsert /\ [][NextInsert]_vars

\* the last n + 3 events were: enter Insert mode from Normal mode, n runes, Esc, Undo
InsertSessionUndone(n) ==
    LET m == Len(log)
    IN /\ m >= n + 3
       /\ log[m - n - 2].key \in {"i", "a"} /\ PlainNormal(m - n - 2)
       /\ log[m - n - 2].pre.pendingCount = 0
       /\ \A k \in (m - n - 1)..(m - 2) : IsInsertRune(k)
       /\ log[m - 1].key = "esc" /\ log[m - 1].pre.mode = "insert"
       /\ IsUndoEvent(m) /\ log[m].pre.pendingCount = 0

\* C1: an insert session of five typed runes ended with Esc is one undo group:
\* the Undo that follows restores the text the session started from.
C1_InsertSessionIsOneUndoGroup ==
    InsertSessionUndone(5) => text = log[Len(log) - 7].pre.text

\* the session of five runes was typed, left and undone
C1_Witness == InsertSessionUndone(5)

----------------------------------------------------------------------------
(* Edits, Undo and Redo from Normal mode *)

MaxUndoEvents == 6
UndoKeys == {"x", "d", "2", "u", "ctrl+r"}
UndoTexts == {<<"a", "b", NL, "b", NL, "a">>}

InitUndo == \E t \in UndoTexts : InitAs(New(t, <<4, 3>>))
NextUndo == \E key \in UndoKeys : KeyEvent(key, MaxUndoEvents)
SpecUndo == InitUndo /\ [][NextUndo]_vars

\* event k changed nothing but the pending state
IsQuietEvent(k) ==
    /\ ~IsUndoEvent(k) /\ ~IsRedoEvent(k)
    /\ PostOf(k).editCount = log[k].pre.editCount

\* the last two events: an edit made from Normal mode, then Undo with count 1
EditThenUndo ==
    LET m == Len(log)
    IN /\ m >= 2
       /\ IsEditEvent(m - 1) /\ log[m - 1].pre.mode = "normal"
       /\ PostOf(m - 1).mode = "normal"
       /\ IsUndoEvent(m) /\ log[m].pre.pendingCount = 0

\* C2: after a buffer edit issued from Normal mode, Undo with count 1 restores
\* the text and the cursor exactly as they were immediately before the edit.
C2_UndoRestoresTextAndCursor ==
    EditThenUndo => /\ text = log[Len(log) - 1].pre.text
                    /\ cursor = log[Len(log) - 1].pre.cursor

\* an edit was made and undone
C2_Witness == EditThenUndo /\ ~panicked

\* the last two events: an Undo that restored an entry, then Redo with the same count
UndoThenRedo ==
    LET m == Len(log)
    IN /\ m >= 2
       /\ IsUndoEvent(m - 1)
       /\ PostOf(m - 1).editCount > log[m - 1].pre.editCount
       /\ IsRedoEvent(m)
       /\ log[m].pre.pendingCount = log[m - 1].pre.pendingCount

\* C3: Undo immediately followed by Redo with the same count is the identity
\* on text and cursor.
C3_UndoRedoIsIdentity ==
    UndoThenRedo => /\ text = log[Len(log) - 1].pre.text
                    /\ cursor = log[Len(log) - 1].pre.cursor

\* an entry was undone and Redo was pressed
C3_Witness == UndoThenRedo /\ ~panicked

\* event u was an Undo that restored an entry and event k the next edit
BranchAt(u, k) ==
    /\ 1 <= u /\ u < k /\ k <= Len(log)
    /\ IsUndoEvent(u)
    /\ PostOf(u).editCount > log[u].pre.editCount
    /\ \A j \in (u + 1)..(k - 1) : IsQuietEvent(j)
    /\ IsEditEvent(k)

\* the number of undo-stack entries an edit keeps
KeptBy(k) == Min(log[k].pre.undoOffset + 1, Len(log[k].pre.undoStack))

\* the edit of event k kept the stack up to undoOffset and pushed its own
\* snapshots over the rest
TailDiscarded(k) ==
    LET old == log[k].pre
        new == PostOf(k)
        keep == KeptBy(k)
        before == [text |-> old.text, cursor |-> old.cursor]
        after == [text |-> new.text, cursor |-> new.cursor]
    IN /\ Len(new.undoStack) > keep
       /\ SubSeq(new.undoStack, 1, keep) = SubSeq(old.undoStack, 1, keep)
       /\ new.undoStack[keep + 1] = before
       /\ old.pendingCount = 0 =>
             /\ Len(new.undoStack) <= keep + 2
             /\ \A j \in (keep + 1)..Len(new.undoStack) :
                   new.undoStack[j] \in {before, after}

\* event k, a Redo, changed neither the buffer nor the undo stack
RedoWasNoOp(k) ==
    /\ PostOf(k).text = log[k].pre.text
    /\ PostOf(k).cursor = log[k].pre.cursor
    /\ PostOf(k).undoStack = log[k].pre.undoStack
    /\ PostOf(k).undoOffset = log[k].pre.undoOffset
    /\ PostOf(k).editCount = log[k].pre.editCount

\* C4: after edit; Undo; edit2 the undo-stack entries beyond the undo offset
\* at the time of edit2 are gone, and a Redo that follows is a no-op.
C4_BranchDiscardsRedoTail ==
    \A u \in 1..Len(log) : \A k \in 1..Len(log) :
        BranchAt(u, k) =>
            /\ TailDiscarded(k)
            /\ (k < Len(log) /\ IsRedoEvent(k + 1)) => RedoWasNoOp(k + 1)

\* an edit was undone, a second edit discarded a redo tail, and Redo was pressed
C4_Witness ==
    /\ ~panicked
    /\ \E u \in 1..Len(log) : \E k \in 1..Len(log) :
          /\ BranchAt(u, k)
          /\ Len(log[k].pre.undoStack) > KeptBy(k)
          /\ k + 1 = Len(log) /\ IsRedoEvent(k + 1)

----------------------------------------------------------------------------
(* The index goroutines against the edits of the UI loop *)

MaxIndexEdits == 1
IndexTexts == {<<"a", " ", "b">>}

InitIndex == \E t \in IndexTexts : InitAs(New(t, <<4, 3>>))
NextIndex ==
    \/ KeyEvent("x", MaxIndexEdits)
    \/ \E w \in workers : WorkerLoop(w)
    \/ \E w \in workers : WorkerCheck(w)
    \/ \E w \in workers : WorkerPublish(w)
SpecIndex == InitIndex /\ [][NextIndex]_vars

\* the Go scheduler runs every runnable goroutine
FairIndex == SpecIndex /\ WF_vars(WorkerStep)

\* C5: every w/e/W/E list present in the current motion-index map was computed
\* from the current text: a worker started for a superseded text never publishes.
C5_StaleWorkersNeverPublish ==
    \A k \in MotionKinds :
        motionIndexes[k] # NoIndex => motionIndexes[k] = IndexOf(k, text)

\* a list is published while an edit has been made
C5_Witness ==
    /\ Len(log) > 0
    /\ \E k \in MotionKinds : motionIndexes[k] # NoIndex

Converged == \A k \in MotionKinds : motionIndexes[k] = IndexOf(k, text)

\* C6: after the last SetText, under fair scheduling of the workers, the
\* w/e/W/E indexes eventually equal the lists computed from the final text.
C6_IndexesEventuallyConsistent == <>[]Converged

\* every goroutine has returned and an index is not the list of the text
C6_Witness == workers = {} /\ ~Converged /\ ~panicked

----------------------------------------------------------------------------
(* The cursor after key events in Normal, Insert and Visual mode *)

MaxCursorEvents == 4
CursorKeys == {"l", "j", "$", "w", "x", "i", "v", "esc", "4", "d", "G"}
CursorTexts == {<<"a", "b", NL, "b">>}

InitCursor == \E t \in CursorTexts : InitAs(New(t, <<4, 3>>))
NextCursor ==
    \/ \E key \in CursorKeys : KeyEvent(key, MaxCursorEvents)
    \/ RunWorkers
SpecCursor == InitCursor /\ [][NextCursor]_vars

\* C7: after every key event, in every mode and with every pending count, the
\* cursor is a valid position, no span is indexed out of range, and a motion
\* that would leave the buffer is clamped instead of failing.
C7_CursorAlwaysValid ==
    /\ ~panicked
    /\ cursor[1] >= 0 /\ cursor[1] < Len(spansPerLines)
    /\ cursor[2] >= 0 /\ cursor[2] < Len(At(spansPerLines, cursor[1]))

\* a motion with a pending count moved the cursor
C7_Witness ==
    /\ Len(log) >= 2
    /\ log[Len(log)].pre.pendingCount > 0
    /\ log[Len(log)].key \in {"l", "j"}
    /\ cursor # log[Len(log)].pre.cursor

----------------------------------------------------------------------------
(* The viewport: Draw and the half-page moves *)

MaxViewEvents == 5
ViewKeys == {"j", "k", "l", "ctrl+d", "ctrl+u"}
ViewTexts == {<<"a", "b", "c", "d", NL, "a", NL, "b", NL, "c", NL, "d">>}
ViewBoxes == {<<3, 3>>, <<3, 7>>}

InitView == \E t \in ViewTexts : \E b \in ViewBoxes : InitAs(New(t, b))
NextView ==
    \/ \E key \in ViewKeys : KeyEvent(key, MaxViewEvents)
    \/ DrawEvent(MaxViewEvents)
SpecView == InitView /\ [][NextView]_vars

\* the last event was a Draw that returned
Drawn == Len(log) > 0 /\ log[Len(log)].key = DrawKey /\ ~panicked

cursorX == WidthTo(At(spansPerLines, cursor[1]), cursor[2])

\* C8: after every Draw the cursor lies inside the visible rectangle:
\* offset.row <= cursor.row < offset.row + h and
\* offset.col <= cursorX < offset.col + w.
C8_CursorVisibleAfterDraw ==
    Drawn => /\ offsets[1] <= cursor[1]
             /\ cursor[1] < offsets[1] + (box[2] - 1)
             /\ offsets[2] <= cursorX
             /\ cursorX < offsets[2] + box[1]

\* a Draw moved the offsets to follow the cursor
C8_Witness == Drawn /\ offsets # log[Len(log)].pre.offsets

\* the last event was a half-page move or a Draw
ScrolledOrDrawn ==
    /\ Len(log) > 0
    /\ \/ log[Len(log)].key = DrawKey
       \/ log[Len(log)].key \in {"ctrl+d", "ctrl+u"} /\ PlainNormal(Len(log))

\* C9: after HalfPageDown, HalfPageUp and Draw the row offset satisfies
\* 0 <= offset.row <= max(rows - h, 0).
C9_RowOffsetInRange ==
    ScrolledOrDrawn => /\ 0 <= offsets[1]
                       /\ offsets[1] <= Max(Len(spansPerLines) - (box[2] - 1), 0)

\* a half-page move changed the row offset
C9_Witness ==
    /\ ScrolledOrDrawn
    /\ log[Len(log)].key # DrawKey
    /\ offsets[1] # log[Len(log)].pre.offsets[1]

----------------------------------------------------------------------------
(* d w on "foo bar" *)

MaxDeleteWordEvents == 4
DeleteWordKeys == {"d", "w", "u", "l"}
FooBar == <<"f", "o", "o", " ", "b", "a", "r">>

InitDeleteWord == InitAs(New(FooBar, <<4, 3>>))
NextDeleteWord ==
    \/ \E key \in DeleteWordKeys : KeyEvent(key, MaxDeleteWordEvents)
    \/ RunWorkers
SpecDeleteWord == InitDeleteWord /\ [][NextDeleteWord]_vars

\* the last two events were d, w on "foo bar" at (0, 0) with the w index converged
DeleteWordDone ==
    LET m == Len(log)
    IN /\ m >= 2
       /\ log[m - 1].key = "d" /\ PlainNormal(m - 1)
       /\ log[m - 1].pre.pendingCount = 0
       /\ log[m - 1].pre.text = FooBar
       /\ log[m - 1].pre.cursor = <<0, 0>>
       /\ log[m - 1].pre.motionIndexes["w"] = IndexOf("w", FooBar)
       /\ log[m].key = "w"
       /\ log[m].pre.motionIndexes["w"] = IndexOf("w", FooBar)

\* C10: with buffer "foo bar", cursor (0, 0) and the w index converged, the
\* keys d, w leave the buffer "bar", the cursor (0, 0) and the clipboard "foo ".
C10_DeleteWord ==
    DeleteWordDone => /\ text = <<"b", "a", "r">>
                      /\ cursor = <<0, 0>>
                      /\ clipboard = <<"f", "o", "o", " ">>

\* d, w was typed with the index converged and deleted the word
C10_Witness == DeleteWordDone /\ text = <<"b", "a", "r">>

----------------------------------------------------------------------------
(* v 3 l y on "abcdef" *)

MaxYankEvents == 5
YankKeys == {"v", "3", "l", "y"}
AbcDef == <<"a", "b", "c", "d", "e", "f">>

InitYank == InitAs(New(AbcDef, <<8, 3>>))
NextYank ==
    \/ \E key \in YankKeys : KeyEvent(key, MaxYankEvents)
    \/ DelayedEvent(MaxYankEvents)
SpecYank == InitYank /\ [][NextYank]_vars

\* the keys v, 3, l, y were typed on "abcdef" at (0, 0) in Normal mode, and the
\* host has run the callback the yank queued
VisualYankDone ==
    LET m == Len(log)
    IN /\ m >= 5
       /\ log[m - 4].key = "v" /\ PlainNormal(m - 4)
       /\ log[m - 4].pre.pendingCount = 0
       /\ log[m - 4].pre.text = AbcDef
       /\ log[m - 4].pre.cursor = <<0, 0>>
       /\ log[m - 3].key = "3"
       /\ log[m - 2].key = "l"
       /\ log[m - 1].key = "y"
       /\ log[m].key = DelayedKey
       /\ delayed = 0

\* C11: the keys v, 3, l, y over "abcdef" at (0, 0) end with the clipboard
\* "abcd", the mode Normal and the cursor at (0, 3).
C11_VisualYank ==
    VisualYankDone => /\ clipboard = <<"a", "b", "c", "d">>
                      /\ mode = "normal"
                      /\ cursor = <<0, 3>>

\* the selection was made and yanked, and the editor is back in Normal mode
C11_Witness == VisualYankDone /\ mode = "normal" /\ cursor = <<0, 3>>

----------------------------------------------------------------------------
(* c i " on 'hello "world" end' *)

MaxInsideEvents == 4
InsideKeys == {"c", "i", "\"", "esc"}
HelloWorld == <<"h", "e", "l", "l", "o", " ", "\"", "w", "o", "r", "l", "d", "\"",
                " ", "e", "n", "d">>
HelloEmpty == <<"h", "e", "l", "l", "o", " ", "\"", "\"", " ", "e", "n", "d">>

\* New, then MoveCursorTo a grapheme between the two quotes
InitInside ==
    \E col \in 7..11 : InitAs(MoveCursorTo(New(HelloWorld, <<20, 3>>), <<0, col>>))
NextInside == \E key \in InsideKeys : KeyEvent(key, MaxInsideEvents)
SpecInside == InitInside /\ [][NextInside]_vars

\* the last three events were c, i, " typed in Normal mode with the cursor
\* between the quotes of 'hello "world" end'
InsideQuotesDone ==
    LET m == Len(log)
    IN /\ m >= 3
       /\ log[m - 2].key = "c" /\ PlainNormal(m - 2)
       /\ log[m - 2].pre.pendingCount = 0
       /\ log[m - 2].pre.text = HelloWorld
       /\ log[m - 2].pre.cursor[1] = 0
       /\ log[m - 2].pre.cursor[2] \in 7..11
       /\ log[m - 1].key = "i"
       /\ log[m].key = "\""

\* C12: c, i, " with the cursor between the quotes of 'hello "world" end'
\* leaves 'hello "" end', the mode Insert and the cursor between the two quotes.
C12_ChangeInsideQuotes ==
    InsideQuotesDone => /\ ~panicked
                        /\ text = HelloEmpty
                        /\ mode = "insert"
                        /\ cursor = <<0, 7>>

\* the text between the quotes was changed from the last column before the
\* closing quote
C12_Witness ==
    /\ InsideQuotesDone
    /\ log[Len(log) - 2].pre.cursor = <<0, 11>>
    /\ text = HelloEmpty

----------------------------------------------------------------------------
(* move-right with a pending count *)

MaxRightEvents == 4
RightKeys == {"1", "3", "9", "l", "h"}
RightTexts == {AbcDef, <<"a", "b", NL, "a", "b", "c">>}

InitRight == \E t \in RightTexts : InitAs(New(t, <<8, 3>>))
NextRight == \E key \in RightKeys : KeyEvent(key, MaxRightEvents)
SpecRight == InitRight /\ [][NextRight]_vars

\* the last event was move-right in Normal mode with a pending count
CountedRight ==
    /\ Len(log) >= 2
    /\ log[Len(log)].key = "l" /\ PlainNormal(Len(log))
    /\ log[Len(log)].pre.pendingCount >= 1

\* C13: move-right with pending count n from (r, c) puts the cursor at
\* (r, min(c + n, maxcol)), maxcol = max(len(spans[r]) - 2, 0), for every n.
C13_CountedRightClamps ==
    CountedRight =>
        LET pre == log[Len(log)].pre
            row == Split(pre.text)[pre.cursor[1] + 1]
            maxcol == Max(Len(SegmentLine(row)) - 2, 0)
        IN /\ ~panicked
           /\ cursor = <<pre.cursor[1], Min(pre.cursor[2] + pre.pendingCount, maxcol)>>

\* the keys 3, l over "abcdef" at (0, 0) gave the cursor (0, 3)
C13_Witness ==
    /\ CountedRight
    /\ log[Len(log)].pre.text = AbcDef
    /\ log[Len(log)].pre.cursor = <<0, 0>>
    /\ log[Len(log)].pre.pendingCount = 3
    /\ cursor = <<0, 3>>

----------------------------------------------------------------------------
(* find a rune and repeat the find *)

MaxFindEvents == 4
FindKeys == {"f", "x", ";", "l"}
AbcXyz == <<"a", "b", "c", "x", "y", "z">>

InitFind == InitAs(New(AbcXyz, <<8, 3>>))
NextFind == \E key \in FindKeys : KeyEvent(key, MaxFindEvents)
SpecFind == InitFind /\ [][NextFind]_vars

\* event k is f and event k + 1 is x, typed over "abcxyz" at (0, 0) in Normal mode
FindXAt(k) ==
    /\ k >= 1 /\ k + 1 <= Len(log)
    /\ log[k].key = "f" /\ PlainNormal(k) /\ log[k].pre.pendingCount = 0
    /\ log[k].pre.text = AbcXyz /\ log[k].pre.cursor = <<0, 0>>
    /\ log[k + 1].key = "x"

\* C14: over "abcxyz" at (0,0) in Normal mode f, x put the cursor at (0,3), and a
\* following next-find key leaves it at (0,3).
C14_FindAndRepeat ==
    /\ FindXAt(Len(log) - 1) => ~panicked /\ cursor = <<0, 3>> /\ text = AbcXyz
    /\ (FindXAt(Len(log) - 2) /\ log[Len(log)].key = ";")
          => ~panicked /\ cursor = <<0, 3>> /\ text = AbcXyz

\* f, x, ; were typed and the cursor rests on the x
C14_Witness ==
    /\ FindXAt(Len(log) - 2) /\ log[Len(log)].key = ";"
    /\ log[Len(log)].pre.cursor = <<0, 3>>
    /\ cursor = <<0, 3>>

----------------------------------------------------------------------------
(* search as a motion, and its repetition *)

MaxSearchEvents == 7
SearchKeys == {"/", "n"}
PromptKeys == {"b", "a", "r", "enter"}
FooBarBaz == <<"f", "o", "o", " ", "b", "a", "r", " ", "b", "a", "z">>

InitSearch == InitAs(New(FooBarBaz, <<20, 3>>))
NextSearch ==
    \E key \in (IF searchEditor = <<>> THEN SearchKeys ELSE PromptKeys) :
       KeyEvent(key, MaxSearchEvents)
SpecSearch == InitSearch /\ [][NextSearch]_vars

\* events k.. are / and the keys of query then Enter, typed over "foo bar baz" at
\* (0, 0) in Normal mode
SearchTyped(k, query) ==
    /\ k >= 1 /\ k + Len(query) + 1 <= Len(log)
    /\ log[k].key = "/" /\ PlainNormal(k) /\ log[k].pre.pendingCount = 0
    /\ log[k].pre.text = FooBarBaz /\ log[k].pre.cursor = <<0, 0>>
    /\ \A j \in 1..Len(query) : log[k + j].key = query[j]
    /\ log[k + Len(query) + 1].key = "enter"

\* the last events are the search for query followed by n, times times
SearchThenNext(query, times) ==
    /\ SearchTyped(Len(log) - Len(query) - 1 - times, query)
    /\ \A j \in 1..times : log[Len(log) - times + j].key = "n"

\* the claim as stated: after the search for bar, n goes to baz and n again to bar
C15_AsStated ==
    /\ SearchThenNext(<<"b", "a", "r">>, 0) => cursor = <<0, 4>>
    /\ SearchThenNext(<<"b", "a", "r">>, 1) => cursor = <<0, 8>>
    /\ SearchThenNext(<<"b", "a", "r">>, 2) => cursor = <<0, 4>>

\* C15: over "foo bar baz" at (0,0), /, b, a, r, Enter put the cursor on the b of
\* bar; bar occurs once, so n and a further n leave the cursor there.  With the
\* query ba, n moves from the b of bar to the b of baz and a further n wraps
\* back to the b of bar.
C15_SearchAndRepeat ==
    /\ \A times \in 0..2 :
          SearchThenNext(<<"b", "a", "r">>, times)
             => ~panicked /\ cursor = <<0, 4>> /\ searchEditor = <<>>
    /\ SearchThenNext(<<"b", "a">>, 0) => ~panicked /\ cursor = <<0, 4>>
    /\ SearchThenNext(<<"b", "a">>, 1) => ~panicked /\ cursor = <<0, 8>>
    /\ SearchThenNext(<<"b", "a">>, 2) => ~panicked /\ cursor = <<0, 4>>

\* /, b, a, r, Enter, n were typed: the cursor is still on the b of bar
C15_Witness ==
    /\ SearchThenNext(<<"b", "a", "r">>, 1)
    /\ motionIndexes["n"] = << <<0, 4, 6>> >>
    /\ cursor = <<0, 4>>

----------------------------------------------------------------------------
(* ReplaceText with the empty string over an empty range *)

MaxReplaceEvents == 4
ReplaceKeys == {"x", "u", "i", "b", "esc"}
ReplaceTexts == {<<>>, <<"a", "b">>, <<"a", NL, "b">>}
ReplaceKey == "<replace>"

\* the cursors that address a span of the document, the sentinel included
ValidCursors ==
    {c \in (0..(Len(spansPerLines) - 1)) \X (0..3) :
        c[2] < Len(spansPerLines[c[1] + 1])}

\* the host calls ReplaceText("", c, c)
ReplaceEmptyEvent(c, maxEvents) ==
    /\ ~panicked
    /\ Len(log) < maxEvents
    /\ searchEditor = <<>>
    /\ Commit(ReplaceText(St, <<>>, c, c))
    /\ log' = Append(log, [key |-> ReplaceKey, pre |-> Snap])

InitReplace == \E t \in ReplaceTexts : InitAs(New(t, <<8, 3>>))
NextReplace ==
    \/ \E key \in ReplaceKeys : KeyEvent(key, MaxReplaceEvents)
    \/ \E c \in ValidCursors : ReplaceEmptyEvent(c, MaxReplaceEvents)
SpecReplace == InitReplace /\ [][NextReplace]_vars

\* the last event was ReplaceText("", c, c) at the cursor c the editor was on
ReplacedAtCursor ==
    /\ Len(log) >= 1
    /\ log[Len(log)].key = ReplaceKey
    /\ ~panicked
    /\ cursor = log[Len(log)].pre.cursor

\* C16: ReplaceText("", c, c) leaves the text, the cursor and the undo stack
\* (entries and undoOffset) as they were.
C16_ReplaceIdentity ==
    ReplacedAtCursor =>
        /\ text = log[Len(log)].pre.text
        /\ undoStack = log[Len(log)].pre.undoStack
        /\ undoOffset = log[Len(log)].pre.undoOffset

\* ReplaceText("", c, c) ran at the cursor and the text is what it was
C16_Witness ==
    /\ ReplacedAtCursor
    /\ text = log[Len(log)].pre.text
    /\ text = <<"a", "b">>

----------------------------------------------------------------------------
(* the byte widths SetText gives the spans of a line *)

MaxBytesLen == 4
BytesChars == {"a", "é", "~", NL}
SetTextKey == "<settext>"

RECURSIVE SeqsUpTo(_, _)
SeqsUpTo(S, n) ==
    IF n = 0 THEN {<<>>}
    ELSE LET shorter == SeqsUpTo(S, n - 1)
         IN shorter \cup {Append(t, x) : t \in shorter, x \in S}

\* the host sets the text of a new editor
SetTextCall(t) ==
    /\ ~panicked
    /\ log = <<>>
    /\ Commit(SetText(St, t, <<0, 0>>))
    /\ log' = Append(log, [key |-> SetTextKey, pre |-> Snap])

InitBytes == \E t \in {<<>>, <<"a">>} : InitAs(New(t, <<8, 3>>))
NextBytes == \E t \in SeqsUpTo(BytesChars, MaxBytesLen) : SetTextCall(t)
SpecBytes == InitBytes /\ [][NextBytes]_vars

\* SetText has run and returned
TextWasSet == log # <<>> /\ log[Len(log)].key = SetTextKey /\ ~panicked

\* C17: after SetText the bytesWidth of the spans of every line add up to the
\* UTF-8 byte length of the line.
C17_BytesWidthSum ==
    TextWasSet =>
        \A i \in 1..Len(Split(text)) :
           SumSeq([j \in 1..Len(spansPerLines[i]) |-> spansPerLines[i][j].bytesWidth])
              = ByteOff(Split(text)[i], Len(Split(text)[i]))

\* SetText segmented a line with a two-byte code point and one-byte ones
C17_Witness ==
    /\ TextWasSet
    /\ text = <<"a", NL, "é", "a">>
    /\ Len(spansPerLines) = 2
    /\ spansPerLines[2][1].bytesWidth = 2

----------------------------------------------------------------------------
(* delete-line down to the last row *)

MaxDeleteLineEvents == 5
DeleteLineKeys == {"d", "2", "j", "l"}
DeleteLineTexts ==
    {<<>>, <<"a", "b">>, <<"a", NL, "b">>, <<"a", "b", NL, NL, "c">>}

InitDeleteLine == \E t \in DeleteLineTexts : InitAs(New(t, <<8, 4>>))
NextDeleteLine == \E key \in DeleteLineKeys : KeyEvent(key, MaxDeleteLineEvents)
SpecDeleteLine == InitDeleteLine /\ [][NextDeleteLine]_vars

\* the last two events are d, d in Normal mode: delete-line has run
DeleteLineDone ==
    /\ Len(log) >= 2
    /\ log[Len(log) - 1].key = "d" /\ PlainNormal(Len(log) - 1)
    /\ log[Len(log)].key = "d"

\* C18: delete-line on a document of one row leaves one empty row and the cursor
\* at (0,0); no sequence of delete-line commands leaves a document of zero rows.
C18_DeleteLastLine ==
    /\ Len(spansPerLines) >= 1
    /\ (DeleteLineDone /\ Len(Split(log[Len(log) - 1].pre.text)) = 1)
          => /\ ~panicked
             /\ text = <<>>
             /\ spansPerLines = <<<<Sentinel>>>>
             /\ cursor = <<0, 0>>

\* d, d deleted the only row "ab" with the cursor on the b
C18_Witness ==
    /\ DeleteLineDone
    /\ log[Len(log) - 1].pre.text = <<"a", "b">>
    /\ log[Len(log) - 1].pre.cursor = <<0, 1>>
    /\ text = <<>> /\ cursor = <<0, 0>>

----------------------------------------------------------------------------
(* the pending state on return from the dispatcher *)

\* the return statement of the dispatch loop that a key reaches, from the k-th
\* action string on
RECURSIVE KindFrom(_, _, _, _, _)

KindOf(s1, key, action, anyStartWith, actionStrings, k) ==
    IF s1.panicked THEN "panic"
    ELSE IF /\ IsOperator(action) /\ s1.mode \in {"visual", "vline"}
            /\ action \notin {"visual", "visual_line"}
    THEN "operator"
    ELSE IF IsOperator(action) THEN "armed"
    ELSE IF /\ IsMotion(action)
            /\ (~IsCountlessMotion(action) \/ s1.pendingCount = 0)
            /\ (IsOperatorlessMotion(action) \/ s1.pendingAction # ActionNone)
    THEN IF RunMotion(s1, action).m = AsyncMotion THEN "async" ELSE "motion"
    ELSE IF HasActionRunner(action) THEN "action"
    ELSE IF anyStartWith THEN "prefix"
    ELSE IF IsDigit(key) THEN "digit"
    ELSE KindFrom(s1, key, actionStrings, k + 1, anyStartWith)

KindFound(s, key, found, actionStrings, k) ==
    IF AcceptsRune(s)
    THEN KindOf(runeRunner(s, s.lastMotion, key), key, s.lastMotion,
                found.anyStartWith, actionStrings, k)
    ELSE KindOf(s, key, found.action, found.anyStartWith, actionStrings, k)

KindFrom(s, key, actionStrings, k, anyStartWith0) ==
    IF k > Len(actionStrings) THEN "unbound"
    ELSE IF s.waitingForMotion /\ ~IsRune(key) THEN "cancelled"
    ELSE KindFound(s, key, ActionAt(s, actionStrings, k, anyStartWith0),
                   actionStrings, k)

KindPending(s1, key, got) ==
    KindFrom(s1, key, IF got.actions = <<>> THEN <<"">> ELSE got.actions, 1,
             got.anyStartWith)

\* how InputHandler ends for a key: "motion", "operator" and "action" are the
\* returns that follow a motion, an operator applied to the selection, or
\* another action; "done" is the search editor's Enter, which applies the
\* pending operator to the search target
DispatchKind(s, key) ==
    IF s.searchEditor # <<>>
    THEN IF s.searchEditor[1].mode = "insert" /\ key = "enter" THEN "done"
         ELSE "search"
    ELSE IF IsQuickKey(s, key) THEN "quick"
    ELSE KindPending([s EXCEPT !.pending = Append(s.pending, key)], key,
                     KeymapGet(Append(s.pending, key), Group(s)))

ResolvedKinds == {"motion", "operator", "action", "done"}

MaxPendingEvents == 4
PendingKeys == {"d", "2", "w", "f", "a", "v", "esc", "/", "enter"}
AbCdEf == <<"a", "b", " ", "c", "d", NL, "e", "f">>

\* a key event, with the way the dispatcher ended kept in the history
DispatchEvent(key, maxEvents) ==
    /\ ~panicked
    /\ Len(log) < maxEvents
    /\ (IsDigit(key) /\ mode \notin {"insert", "replace"})
          => pendingCount * 10 + DigitValue(key) <= MaxCount
    /\ Commit(InputHandler(St, key))
    /\ log' = Append(log, [key |-> key, pre |-> Snap, kind |-> DispatchKind(St, key)])

InitPending == InitAs(New(AbCdEf, <<8, 4>>))
NextPending == \E key \in PendingKeys : DispatchEvent(key, MaxPendingEvents)
SpecPending == InitPending /\ [][NextPending]_vars

\* the last keystroke ended by a motion, an operator on a target or another action
Resolved ==
    /\ log # <<>>
    /\ log[Len(log)].kind \in ResolvedKinds
    /\ ~panicked

\* C19: when a keystroke ends by executing a motion, applying an operator to a
\* target or running another action, then on return pendingAction is none,
\* pendingCount is 0, pending is empty, and waitingForMotion and lastMotion are
\* cleared.
C19_PendingReset ==
    Resolved =>
        /\ pendingAction = ActionNone
        /\ pendingCount = 0
        /\ pending = <<>>
        /\ ~waitingForMotion
        /\ lastMotion = ActionNone

\* d, 2, f, a: the rune a resolved the find that the operator d and the count 2
\* were waiting for
C19_Witness ==
    /\ Resolved
    /\ Len(log) = 4
    /\ log[4].kind = "motion"
    /\ log[4].pre.pendingAction = "delete"
    /\ log[4].pre.pendingCount = 2
    /\ log[4].pre.waitingForMotion
    /\ pendingAction = ActionNone /\ pendingCount = 0 /\ pending = <<>>

----------------------------------------------------------------------------
(* the keymap trees against the bindings they were built from *)

MaxBindings == 2
KeymapKey == "<keymap>"
BindingKeys ==
    {<< <<>> >>, << <<"g">> >>, << <<"g", "g">> >>, << <<"g", "e">> >>,
     << <<"g">>, <<"g", "e">> >>}
BindingGroups == {<<"n">>, <<"v">>, <<"n", "v">>}
BindingActions == {"undo", "redo"}
LookupGroups == {"n", "v", "i"}
LookupKeys == SeqsUpTo({"g", "e"}, 3)

\* keyTreePerGroupFromJSONString handles one entry of the namespace "editor"
LoadKeymap(keymap) ==
    /\ ~panicked
    /\ Len(log) < MaxBindings
    /\ keyTreePerGroup' = AddKeymap(keyTreePerGroup, "editor", keymap, 1)
    /\ log' = Append(log, [key |-> KeymapKey, pre |-> Snap, keymap |-> keymap])
    /\ UNCHANGED <<text, spansPerLines, cursor, mode, undoStack, undoOffset,
                   editCount, motionIndexes, offsets, pending, pendingCount,
                   pendingAction, lastMotion, waitingForMotion, visualStart,
                   yankOnVisual, box, clipboard, workers, delayed, searchEditor,
                   flashIndexes, oneLineMode, drawLoop, panicked>>

InitKeymap == InitAs(New(<<>>, <<8, 3>>))
NextKeymap ==
    \E k \in BindingKeys, g \in BindingGroups, a \in BindingActions :
       LoadKeymap([keys |-> k, groups |-> g, action |-> a])
SpecKeymap == InitKeymap /\ [][NextKeymap]_vars

\* the bindings of a group, one per key sequence of each entry, in the order of
\* the entries
BoundIn(group) ==
    Concat([i \in 1..Len(log) |->
       Concat([j \in 1..Len(log[i].keymap.groups) |->
          IF log[i].keymap.groups[j] # group THEN <<>>
          ELSE [a \in 1..Len(log[i].keymap.keys) |->
                  [keys |-> log[i].keymap.keys[a],
                   action |-> "editor." \o log[i].keymap.action]]])])

----------------------------------------------------------------------------
(* GetNextMotionCursor and GetPrevMotionCursor over the published indexes *)

MaxMotionN == 3
MotionCallKinds == {"w", "e", "W"}
NextMotionKey == "<next>"
PrevMotionKey == "<prev>"
AbCdEfWords == <<"a", "b", " ", "c", "d", " ", "e", "f">>
MotionTexts == {AbCdEfWords, <<"a", "b", " ", "c", NL, "d", " ", "e">>, <<"a", "b">>}

\* a motion asks for the n-th entry of kind after the cursor c
NextMotionCall(kind, n, c) ==
    /\ ~panicked
    /\ log = <<>>
    /\ workers = {}
    /\ Commit(St)
    /\ log' = Append(log, [key |-> NextMotionKey, pre |-> Snap, kind |-> kind,
                           n |-> n, c |-> c,
                           res |-> GetNextMotionCursor(St, kind, n, c, FALSE)])

\* a motion asks for the n-th entry of kind before the cursor c
PrevMotionCall(kind, n, c) ==
    /\ ~panicked
    /\ log = <<>>
    /\ workers = {}
    /\ Commit(St)
    /\ log' = Append(log, [key |-> PrevMotionKey, pre |-> Snap, kind |-> kind,
                           n |-> n, c |-> c,
                           res |-> GetPrevMotionCursor(St, kind, n, c, FALSE)])

InitMotion == \E t \in MotionTexts : InitAs(New(t, <<8, 3>>))
NextMotion ==
    \/ RunWorkers
    \/ \E kind \in MotionCallKinds, n \in 1..MaxMotionN, c \in ValidCursors :
          NextMotionCall(kind, n, c)
    \/ \E kind \in MotionCallKinds, n \in 1..MaxMotionN, c \in ValidCursors :
          PrevMotionCall(kind, n, c)
SpecMotion == InitMotion /\ [][NextMotion]_vars

\* the entries of the index ix strictly after, and strictly before, the cursor c
EntriesAfter(ix, c) == SelectSeq(ix, LAMBDA x : CursorLess(c, <<x[1], x[2]>>))
EntriesBefore(ix, c) == SelectSeq(ix, LAMBDA x : CursorLess(<<x[1], x[2]>>, c))

\* what a scan that never wraps answers: the n-th candidate counted from the cursor
NthOrNotFound(cand, n, c, forward) ==
    IF Len(cand) < n THEN [c |-> c, found |-> FALSE]
    ELSE LET x == IF forward THEN cand[n] ELSE cand[Len(cand) - n + 1]
         IN [c |-> <<x[1], x[2]>>, found |-> TRUE]

IsMotionCall == log # <<>> /\ log[1].key \in {NextMotionKey, PrevMotionKey}

\* C21: for a kind other than n, NextMotion(kind, n, cursor, false) is the n-th
\* entry strictly after the cursor, and not-found with the cursor unchanged when
\* fewer than n entries follow it; PrevMotion mirrors it; neither wraps around.
C21_MotionNeverWraps ==
    IsMotionCall =>
        LET call == log[1]
            ix == call.pre.motionIndexes[call.kind]
        IN call.res =
             IF call.key = NextMotionKey
             THEN NthOrNotFound(EntriesAfter(ix, call.c), call.n, call.c, TRUE)
             ELSE NthOrNotFound(EntriesBefore(ix, call.c), call.n, call.c, FALSE)

\* over "ab cd ef" the second w entry after (0, 0) was asked for and is (0, 6)
C21_Witness ==
    /\ IsMotionCall
    /\ log[1].key = NextMotionKey
    /\ log[1].pre.text = AbCdEfWords
    /\ log[1].kind = "w" /\ log[1].n = 2 /\ log[1].c = <<0, 0>>
    /\ log[1].pre.motionIndexes["w"] = IndexOf("w", AbCdEfWords)
    /\ log[1].res = [c |-> <<0, 6>>, found |-> TRUE]

----------------------------------------------------------------------------
(* The mutex around the writes of the motion-index map *)

MaxLockEvents == 1
\* the most goroutines of the previous text still running when an edit is made
MaxStaleWorkers == 1
LockKeys == {"x", "w"}
LockTexts == {<<"a", " ", "b">>}

\* some goroutine is between e.mutex.Lock() and the deferred Unlock
MutexHeld == \E w \in workers : w.pc = "locked"

\* e.mutex.Lock() of a goroutine that passed its last editCount check
WorkerLock(w) ==
    /\ ~panicked
    /\ w \in workers /\ w.pc = "publish"
    /\ ~MutexHeld
    /\ workers' = (workers \ {w}) \cup {[w EXCEPT !.pc = "locked"]}
    /\ UNCHANGED <<mainVars, motionIndexes, panicked>>

\* e.motionIndexes[kind] = indexes and the deferred Unlock; the map written is
\* the one the goroutine's read of the field yields
WorkerWrite(w) ==
    /\ ~panicked
    /\ w \in workers /\ w.pc = "locked"
    /\ \/ motionIndexes' = [motionIndexes EXCEPT ![w.kind] = w.indexes]
       \/ editCount > w.editCount /\ motionIndexes' = motionIndexes
    /\ workers' = workers \ {w}
    /\ UNCHANGED <<mainVars, panicked>>

\* the UI loop hands one key event to InputHandler, which takes no lock; the
\* history keeps whether a goroutine held the mutex meanwhile
MainLoopEvent(key, maxEvents) ==
    /\ ~panicked
    /\ Len(log) < maxEvents
    /\ key = "x" => Cardinality(workers) <= MaxStaleWorkers
    /\ Commit(InputHandler(St, key))
    /\ log' = Append(log, [key |-> key, pre |-> Snap, held |-> MutexHeld])

InitLock == \E t \in LockTexts : InitAs(New(t, <<4, 3>>))
NextLock ==
    \/ \E key \in LockKeys : MainLoopEvent(key, MaxLockEvents)
    \/ \E w \in workers : WorkerLoop(w)
    \/ \E w \in workers : WorkerCheck(w)
    \/ \E w \in workers : WorkerLock(w)
    \/ \E w \in workers : WorkerWrite(w)
SpecLock == InitLock /\ [][NextLock]_vars

\* event k read the motion-index map (w: GetNextMotionCursor) or replaced it
\* (x: SetText)
AccessedIndexes(k) == log[k].key \in LockKeys /\ PlainNormal(k)

\* C22: every access of the motion-index map by the UI loop is made under the
\* map's lock: none happens while a worker is inside its locked publish.
C22_MainLoopUnderLock ==
    \A k \in 1..Len(log) : AccessedIndexes(k) => ~log[k].held

\* the UI loop moved by a word over the published index with no goroutine
\* holding the mutex
C22_Witness ==
    /\ Len(log) = 1
    /\ AccessedIndexes(1) /\ log[1].key = "w"
    /\ ~log[1].held
    /\ log[1].pre.motionIndexes["w"] = IndexOf("w", log[1].pre.text)
    /\ cursor = <<0, 2>>

----------------------------------------------------------------------------
(* a key that is no rune while a motion waits for its rune *)

MaxWaitingEvents == 3
WaitingKeys == {"d", "2", "f", "F", "t", "T", "i", "a", "v", "esc", "enter"}
NonRuneKeys == {"esc", "enter"}
QuotedWords == <<"a", "b", " ", "\"", "c", "\"">>

InitWaiting == InitAs(New(QuotedWords, <<8, 3>>))
NextWaiting == \E key \in WaitingKeys : KeyEvent(key, MaxWaitingEvents)
SpecWaiting == InitWaiting /\ [][NextWaiting]_vars

\* event k was a key that is no rune, typed while a find, till, inside or
\* around motion waited for its rune
AbortedWaiting(k) ==
    /\ log[k].key \in NonRuneKeys
    /\ log[k].pre.waitingForMotion
    /\ log[k].pre.lastMotion \in WaitingForRuneActions

\* C23: a key that is no rune, typed while a motion waits for its rune, resets
\* the pending operator, count, keys and waiting flag and leaves the text, the
\* cursor, the mode and the undo stack as they were.
C23_WaitingForRuneAbort ==
    \A k \in 1..Len(log) :
        AbortedWaiting(k) =>
            /\ PostOf(k).pendingAction = ActionNone
            /\ PostOf(k).pendingCount = 0
            /\ PostOf(k).pending = <<>>
            /\ ~PostOf(k).waitingForMotion
            /\ PostOf(k).text = log[k].pre.text
            /\ PostOf(k).cursor = log[k].pre.cursor
            /\ PostOf(k).mode = log[k].pre.mode
            /\ PostOf(k).undoStack = log[k].pre.undoStack
            /\ PostOf(k).undoOffset = log[k].pre.undoOffset

\* d, i were typed and Esc came while inside waited for its rune
C23_Witness ==
    /\ Len(log) = 3
    /\ AbortedWaiting(3) /\ log[3].key = "esc"
    /\ log[3].pre.lastMotion = "inside"
    /\ log[3].pre.pendingAction = "delete"
    /\ log[3].pre.pending = <<"d", "i">>
    /\ pending = <<>> /\ pendingAction = ActionNone /\ ~waitingForMotion

----------------------------------------------------------------------------
(* the search prompt, left with Esc *)

MaxCancelEvents == 5
CancelKeys == {"d", "2", "/", "l"}
CancelPromptKeys == {"c", "esc", "enter"}
AbCd == <<"a", "b", " ", "c", "d">>

InitCancel == InitAs(New(AbCd, <<8, 3>>))
NextCancel ==
    \E key \in (IF searchEditor = <<>> THEN CancelKeys ELSE CancelPromptKeys) :
        KeyEvent(key, MaxCancelEvents)
SpecCancel == InitCancel /\ [][NextCancel]_vars

\* event k went to the open prompt, which stayed open
KeptPrompt(k) == log[k].pre.promptOpen /\ PostOf(k).promptOpen

\* event k was the Esc that made the open prompt call its onExitFunc
PromptExited(k) ==
    /\ log[k].pre.promptOpen /\ ~PostOf(k).promptOpen
    /\ log[k].key = "esc"

\* the event that opened the prompt event k went to
OpenedAt(k) ==
    CHOOSE j \in 1..(k - 1) :
        /\ ~log[j].pre.promptOpen
        /\ \A i \in (j + 1)..k : log[i].pre.promptOpen

\* C24: a key event that goes to the open search prompt changes neither the
\* text, the cursor nor the mode of the parent; when the prompt resolves with
\* Exit it is removed, the parent's pending operator, count, keys and waiting
\* flag are cleared, and its text, cursor, mode and undo stack are those of
\* before the prompt opened.
C24_PromptCancel ==
    \A k \in 1..Len(log) :
        /\ KeptPrompt(k) =>
              /\ PostOf(k).text = log[k].pre.text
              /\ PostOf(k).cursor = log[k].pre.cursor
              /\ PostOf(k).mode = log[k].pre.mode
        /\ PromptExited(k) =>
              /\ PostOf(k).pendingAction = ActionNone
              /\ PostOf(k).pendingCount = 0
              /\ PostOf(k).pending = <<>>
              /\ ~PostOf(k).waitingForMotion
              /\ PostOf(k).text = log[OpenedAt(k)].pre.text
              /\ PostOf(k).cursor = log[OpenedAt(k)].pre.cursor
              /\ PostOf(k).mode = log[OpenedAt(k)].pre.mode
              /\ PostOf(k).undoStack = log[OpenedAt(k)].pre.undoStack
              /\ PostOf(k).undoOffset = log[OpenedAt(k)].pre.undoOffset

\* d, / opened the prompt, c was typed into it, Esc left its Insert mode and a
\* second Esc made it exit
C24_Witness ==
    /\ Len(log) = 5
    /\ log[1].key = "d" /\ log[2].key = "/" /\ log[3].key = "c"
    /\ KeptPrompt(3) /\ KeptPrompt(4)
    /\ PromptExited(5) /\ OpenedAt(5) = 2
    /\ log[5].pre.pendingAction = "delete"
    /\ searchEditor = <<>> /\ pendingAction = ActionNone /\ text = AbCd

----------------------------------------------------------------------------
(* the cursor and the sentinel in Normal and Replace mode *)

MaxSentinelEvents == 4
SentinelKeys == {"i", "A", "c", "esc", "v", "V", "$", "l", "d", "y", "r"}
SentinelTexts == {<<"a", "b">>, <<"a", NL, "b", "c">>}

InitSentinel == \E t \in SentinelTexts : InitAs(New(t, <<8, 3>>))
NextSentinel ==
    \/ \E key \in SentinelKeys : KeyEvent(key, MaxSentinelEvents)
    \/ DelayedEvent(MaxSentinelEvents)
SpecSentinel == InitSentinel /\ [][NextSentinel]_vars

\* the last column a Normal-mode cursor may be on in its row
MaxNormalCol == Max(Len(spansPerLines[cursor[1] + 1]) - 2, 0)

\* a keystroke has been handled and left the editor in Normal or Replace mode
HandledInNormal ==
    /\ log # <<>> /\ log[Len(log)].key \notin {DrawKey, DelayedKey}
    /\ ~panicked
    /\ mode \in {"normal", "replace"}

\* C25: after every keystroke that leaves the mode Normal or Replace the cursor
\* is not on the sentinel of a line that has characters:
\* cursor.col <= max(len(spans[row]) - 2, 0).
C25_NormalCursorOffSentinel ==
    HandledInNormal => cursor[2] <= MaxNormalCol

\* A appended at the end of "ab", and Esc put the cursor back on b
C25_Witness ==
    /\ HandledInNormal
    /\ Len(log) = 2 /\ log[1].key = "A" /\ log[2].key = "esc"
    /\ log[2].pre.cursor = <<0, 2>> /\ log[2].pre.mode = "insert"
    /\ cursor = <<0, 1>>

----------------------------------------------------------------------------
(* digits typed in Normal mode: the pending count *)

MaxCountEvents == 4
CountKeys == {"1", "2", "0", "d", "x", "l"}
AbcToL == <<"a", "b", "c", "d", "e", "f", "g", "h", "i", "j", "k", "l">>

\* the UI loop hands one key event to InputHandler; the digits typed are as
\* many as the events, so the count has as many decimal places at most
CountKeyEvent(key, maxEvents) ==
    /\ ~panicked
    /\ Len(log) < maxEvents
    /\ Commit(InputHandler(St, key))
    /\ log' = Append(log, [key |-> key, pre |-> Snap])

InitCount == InitAs(New(AbcToL, <<16, 3>>))
NextCount == \E key \in CountKeys : CountKeyEvent(key, MaxCountEvents)
SpecCount == InitCount /\ [][NextCount]_vars

\* event k was typed in Normal mode while no motion waited for a rune
TypedInNormal(k) ==
    /\ log[k].pre.mode = "normal"
    /\ ~log[k].pre.waitingForMotion
    /\ ~log[k].pre.promptOpen

\* event k was x with nothing pending but a count: what it deleted
DeletedBy(k) == Len(log[k].pre.text) - Len(PostOf(k).text)

\* C26: in Normal mode a digit other than 0, or a 0 after a count that is not
\* 0, appends its decimal place to the pending count and is removed from the
\* pending keys; a 0 typed while the count is 0 runs start-of-line and leaves the
\* count 0; the next operation uses max(1, pending count).
C26_CountAccumulation ==
    \A k \in 1..Len(log) :
        /\ (TypedInNormal(k) /\ IsDigit(log[k].key)
              /\ (log[k].key # "0" \/ log[k].pre.pendingCount > 0)) =>
              /\ PostOf(k).pendingCount
                    = log[k].pre.pendingCount * 10 + DigitValue(log[k].key)
              /\ PostOf(k).pending = log[k].pre.pending
        /\ (TypedInNormal(k) /\ log[k].key = "0" /\ log[k].pre.pendingCount = 0
              /\ PlainNormal(k)) =>
              /\ PostOf(k).pendingCount = 0
              /\ PostOf(k).cursor = <<log[k].pre.cursor[1], 0>>
        /\ (log[k].key = "x" /\ PlainNormal(k)) =>
              DeletedBy(k) = Min(Max(1, log[k].pre.pendingCount),
                                 Len(log[k].pre.text) - log[k].pre.cursor[2])

\* 1, 0 made the count ten and x deleted ten characters
C26_Witness ==
    /\ Len(log) = 3
    /\ log[1].key = "1" /\ log[2].key = "0" /\ log[3].key = "x"
    /\ log[2].pre.pendingCount = 1 /\ log[3].pre.pendingCount = 10
    /\ text = <<"k", "l">>
    /\ pendingCount = 0

----------------------------------------------------------------------------
(* the W index: where the runs of non-whitespace start *)

MaxBigWordLen == 3
BigWordChars == {"a", ".", " ", NL}

InitBigWord == InitAs(New(<<>>, <<8, 3>>))
NextBigWord ==
    \/ \E t \in SeqsUpTo(BigWordChars, MaxBigWordLen) : SetTextCall(t)
    \/ RunWorkers
SpecBigWord == InitBigWord /\ [][NextBigWord]_vars

\* the W goroutine started for the current text has published
BigWordPublished == TextWasSet /\ workers = {}

\* the cells where a maximal run of characters that are no whitespace starts
BigWordStarts ==
    {c \in (0..(Len(Split(text)) - 1)) \X (0..(MaxBigWordLen + 1)) :
        LET line == Split(text)[c[1] + 1]
        IN /\ c[2] < Len(line)
           /\ At(line, c[2]) \notin SpaceChars
           /\ (c[2] = 0 \/ At(line, c[2] - 1) \in SpaceChars)}

\* C27: once the W worker has published for the current text, the W index holds
\* exactly the start column of every maximal run of non-whitespace of every
\* line, the run that begins at column 0 included.
C27_BigWordStarts ==
    BigWordPublished =>
        {<<motionIndexes["W"][k][1], motionIndexes["W"][k][2]>> :
            k \in 1..Len(motionIndexes["W"])} = BigWordStarts

\* the text " a" was set and the W index holds the start (0, 1) of its one run
C27_Witness ==
    /\ BigWordPublished
    /\ text = <<" ", "a">>
    /\ motionIndexes["W"] = <<<<0, 1, 1>>>>
    /\ BigWordStarts = {<<0, 1>>}

----------------------------------------------------------------------------
(* 3 d d and one Undo *)

MaxGroupEvents == 5
GroupKeys == {"3", "d", "u", "j"}
FourRows == <<"a", NL, "b", NL, "c", NL, "d">>
FiveRows == <<"a", NL, "b", NL, "c", NL, "d", NL, "e">>

InitGroup == \E t \in {FourRows, FiveRows} : InitAs(New(t, <<8, 8>>))
NextGroup == \E key \in GroupKeys : KeyEvent(key, MaxGroupEvents)
SpecGroup == InitGroup /\ [][NextGroup]_vars

\* events k .. k + 2 were 3, d, d typed in Normal mode with nothing pending:
\* delete-line ran with count 3
CountedDeleteLine(k) ==
    /\ k + 2 <= Len(log)
    /\ log[k].key = "3" /\ PlainNormal(k) /\ log[k].pre.pendingCount = 0
    /\ log[k + 1].key = "d" /\ log[k + 2].key = "d"
    /\ Len(Split(log[k].pre.text)) >= 4

\* C30: delete-line with count 3 on a document of at least four rows is undone
\* as a whole by one Undo with count 1: the text and the cursor are again those
\* of before the command.
C30_CountedCommandIsOneUndoGroup ==
    \A k \in 1..Len(log) :
        (CountedDeleteLine(k) /\ k + 3 <= Len(log) /\ log[k + 3].key = "u") =>
            /\ PostOf(k + 3).text = log[k].pre.text
            /\ PostOf(k + 3).cursor = log[k].pre.cursor

\* 3, d, d on the four rows a, b, c, d at (0, 0) left the row d
C30_Witness ==
    /\ Len(log) = 3
    /\ CountedDeleteLine(1)
    /\ log[1].pre.text = FourRows /\ log[1].pre.cursor = <<0, 0>>
    /\ text = <<"d">>
    /\ ~panicked

----------------------------------------------------------------------------
(* C28: the flash prompt jumps only on an assigned label *)

MaxFlashEvents == 6
FlashKeys == {"s", "d", "j"}
FlashPromptKeys == {"a", "c", "#", "esc", "enter"}
BaAbAb == <<"b", "a", NL, "a", "b", NL, "a", "b">>

InitFlash == InitAs(New(BaAbAb, <<8, 3>>))
NextFlash ==
    \/ \E key \in (IF searchEditor = <<>> THEN FlashKeys ELSE FlashPromptKeys) :
          KeyEvent(key, MaxFlashEvents)
    \/ searchEditor = <<>> /\ DrawEvent(MaxFlashEvents)
SpecFlash == InitFlash /\ [][NextFlash]_vars

\* the runes of flashAlphabet
FlashLabelRunes == {flashAlphabet[a] : a \in 1..Len(flashAlphabet)}
\* the entries of a flashIndexes map that label a match
FlashLabels(fi) == {x \in fi : x.r \in FlashLabelRunes}

\* the cells <<row, column>> of the rows in rowSet of the text t at which the
\* query q starts
MatchStartsIn(t, q, rowSet) ==
    {c \in (0..Len(t)) \X (0..Len(t)) :
        /\ c[1] \in rowSet
        /\ c[1] < Len(Split(t))
        /\ q # <<>>
        /\ c[2] + Len(q) <= Len(At(Split(t), c[1]))
        /\ SubSeq(At(Split(t), c[1]), c[2] + 1, c[2] + Len(q)) = q}
MatchStarts(t, q) == MatchStartsIn(t, q, 0..Len(t))

\* event k went to the open flash prompt, in its Insert mode, and was a rune
FlashTyped(k) ==
    /\ log[k].pre.prompt = "flash"
    /\ log[k].pre.promptMode = "insert"
    /\ log[k].key \notin {"esc", "enter", DrawKey}

\* the label event k selected: an entry of flashAlphabet assigned before it
FlashSelected(k) == {x \in FlashLabels(log[k].pre.flashIndexes) : x.r = log[k].key}

\* C28: while the flash prompt is open the parent's cursor and text change only
\* when the rune just typed is a label assigned to a match; the target is then
\* the start of that match, the prompt is closed and the flash index and the
\* labels are cleared; any other rune, '#' included, only extends the query.
C28_FlashJumpsOnlyOnLabel ==
    \A k \in 1..Len(log) :
        FlashTyped(k) =>
            IF FlashSelected(k) # {}
            THEN \A x \in FlashSelected(k) :
                    /\ x.c \in MatchStarts(log[k].pre.text, log[k].pre.promptText)
                    /\ log[k].pre.pendingAction = ActionNone
                          => PostOf(k).cursor = x.c
                    /\ ~PostOf(k).promptOpen
                    /\ PostOf(k).flashIndexes = {}
                    /\ PostOf(k).motionIndexes["Z"] = NoIndex
            ELSE /\ PostOf(k).cursor = log[k].pre.cursor
                 /\ PostOf(k).text = log[k].pre.text
                 /\ PostOf(k).prompt = "flash"
                 /\ PostOf(k).promptText = log[k].pre.promptText \o <<log[k].key>>

\* s opened the flash prompt, a labelled the two visible matches and c, the
\* label of the second, was typed
C28_Witness ==
    /\ Len(log) = 3
    /\ log[1].key = "s" /\ log[2].key = "a" /\ log[3].key = "c"
    /\ FlashSelected(3) # {}
    /\ ~panicked

----------------------------------------------------------------------------
(* C29: the labels the flash prompt assigns *)

\* the last event typed a rune into the flash prompt, which stayed open
FlashUpdated ==
    /\ log # <<>>
    /\ FlashTyped(Len(log))
    /\ searchEditor # <<>>
    /\ ~panicked

\* the rows the viewport shows
VisibleRows == offsets[1]..(offsets[1] + TextRows(St) - 1)
\* the starts of the visible matches of the flash query
VisibleStarts == MatchStartsIn(text, searchEditor[1].text, VisibleRows)
\* the place of a label rune in flashAlphabet
AlphabetPos(r) == CHOOSE a \in 1..Len(flashAlphabet) : flashAlphabet[a] = r
\* the runes that follow a visible match in its row
FollowingRunes ==
    {At(At(Split(text), c[1]), c[2] + Len(searchEditor[1].text)) :
        c \in {m \in VisibleStarts :
                 m[2] + Len(searchEditor[1].text) < Len(At(Split(text), m[1]))}}

\* C29: after every update of the flash query each assigned label marks the
\* start of one visible match, no two labels mark the same match, the labels
\* follow flashAlphabet in the order of the distance of their match from the
\* cursor, a labelled match being no farther than an unlabelled one, and no
\* label is the character that follows a match.
C29_FlashLabelsUnambiguous ==
    FlashUpdated =>
        /\ \A x \in FlashLabels(flashIndexes) : x.c \in VisibleStarts
        /\ \A x, y \in FlashLabels(flashIndexes) :
              (x.c = y.c \/ x.r = y.r) => x = y
        /\ \A x, y \in FlashLabels(flashIndexes) :
              AlphabetPos(x.r) < AlphabetPos(y.r)
                 => FlashDistance(cursor, x.c) <= FlashDistance(cursor, y.c)
        /\ \A x \in FlashLabels(flashIndexes) :
              \A m \in VisibleStarts \ {y.c : y \in FlashLabels(flashIndexes)} :
                 FlashDistance(cursor, x.c) <= FlashDistance(cursor, m)
        /\ \A x \in FlashLabels(flashIndexes) : x.r \notin FollowingRunes

\* s, a: the matches (0,1) and (1,0) are labelled a and c, b being the rune that
\* follows the second
C29_Witness ==
    /\ FlashUpdated
    /\ Len(log) = 2
    /\ offsets = <<0, 0>>
    /\ searchEditor[1].text = <<"a">>
    /\ flashIndexes = {[r |-> FlashLenKey, c |-> <<1, 0>>],
                       [r |-> "a", c |-> <<0, 1>>],
                       [r |-> "c", c |-> <<1, 0>>]}
    /\ "b" \in FollowingRunes

----------------------------------------------------------------------------
(* C31, C32: an operator typed in Visual or VLine mode *)

MaxVisualEvents == 4
VisualKeys == {"v", "V", "j", "k", "l", "d", "c", "y"}
AbC == <<"a", "b", NL, "c">>

InitVisual == InitAs(New(AbC, <<8, 4>>))
NextVisual ==
    \/ \E key \in VisualKeys : KeyEvent(key, MaxVisualEvents)
    \/ DelayedEvent(MaxVisualEvents)
SpecVisual == InitVisual /\ [][NextVisual]_vars

VisualOperatorKeys == {"d", "c", "y"}
\* event k was change, delete or yank typed in Visual or VLine mode with no key
\* pending
OperatorInVisual(k) ==
    /\ log[k].key \in VisualOperatorKeys
    /\ log[k].pre.mode \in {"visual", "vline"}
    /\ log[k].pre.pending = <<>>
    /\ ~log[k].pre.promptOpen

\* C31: change, delete or yank typed in Visual or VLine mode is applied at once:
\* no motion is awaited, the pending state is reset, and when the keystroke
\* returns the mode is Normal for delete and yank and Insert for change, in
\* Visual and in VLine.
C31_OperatorInVisual ==
    \A k \in 1..Len(log) :
        (OperatorInVisual(k) /\ ~(k = Len(log) /\ panicked)) =>
            /\ PostOf(k).pendingAction = ActionNone
            /\ PostOf(k).pendingCount = 0
            /\ PostOf(k).pending = <<>>
            /\ ~PostOf(k).waitingForMotion
            /\ PostOf(k).mode = IF log[k].key = "c" THEN "insert" ELSE "normal"

\* v, l selected "ab" and d deleted it: the mode is Normal, nothing is pending
C31_Witness ==
    /\ Len(log) = 3
    /\ log[1].key = "v" /\ log[2].key = "l" /\ log[3].key = "d"
    /\ OperatorInVisual(3)
    /\ mode = "normal"
    /\ text # AbC
    /\ ~panicked

\* event k was an operator typed in VLine mode
OperatorInVLine(k) == OperatorInVisual(k) /\ log[k].pre.mode = "vline"
\* the first and the last row of the selection event k found
FirstRow(k) == Min(log[k].pre.cursor[1], log[k].pre.visualStart[1])
LastRow(k) == Max(log[k].pre.cursor[1], log[k].pre.visualStart[1])
\* the column of the sentinel of a row
SentinelCol(spans, row) == Len(At(spans, row)) - 1

\* C32: an operator typed in VLine mode over the rows r1 <= r2 gets the range
\* from (r1, 0) to the sentinel column of r2, whichever end the cursor is on and
\* whatever the columns of the two ends are; delete puts the text of that range
\* on the clipboard.
C32_VLineNormalisation ==
    \A k \in 1..Len(log) :
        OperatorInVLine(k) =>
            /\ NormalizeVLine(log[k].pre).cursor = <<FirstRow(k), 0>>
            /\ NormalizeVLine(log[k].pre).visualStart =
                  <<LastRow(k), SentinelCol(log[k].pre.spansPerLines, LastRow(k))>>
            /\ (log[k].key = "d" /\ ~(k = Len(log) /\ panicked)) =>
                  PostOf(k).clipboard =
                     GetText(log[k].pre, <<FirstRow(k), 0>>,
                             <<LastRow(k),
                               SentinelCol(log[k].pre.spansPerLines, LastRow(k))>>)

\* V at (0,0), j to (1,0) and d: the cursor is on the last row of the selection,
\* and both rows, each with its line end, are on the clipboard
C32_Witness ==
    /\ Len(log) = 3
    /\ log[1].key = "V" /\ log[2].key = "j" /\ log[3].key = "d"
    /\ OperatorInVLine(3)
    /\ log[3].pre.cursor = <<1, 0>> /\ log[3].pre.visualStart = <<0, 0>>
    /\ clipboard = AbC \o <<NL>>
    /\ text = <<>>
    /\ ~panicked

----------------------------------------------------------------------------
(* C33: the document of an editor in one-line mode *)

MaxOneLineEvents == 3
OneLineKeys == {"a", "enter", "esc", "backspace"}
OneLineTexts == {<<"a">>, <<"a", NL, "b">>, <<NL>>}

\* a host builds its prompt as New().SetOneLineMode(true), sets the empty text
\* and changes the mode to Insert; it installs no onDoneFunc
InitOneLine ==
    InitAs(SetMode(SetOneLineMode(New(<<>>, <<8, 1>>), TRUE), "insert"))
\* the host calls SetText
OneLineSetText(t) ==
    /\ ~panicked
    /\ Len(log) < MaxOneLineEvents
    /\ Commit(SetText(St, t, <<0, 0>>))
    /\ log' = Append(log, [key |-> SetTextKey, pre |-> Snap])
NextOneLine ==
    \/ \E key \in OneLineKeys : KeyEvent(key, MaxOneLineEvents)
    \/ \E t \in OneLineTexts : OneLineSetText(t)
SpecOneLine == InitOneLine /\ [][NextOneLine]_vars

\* the clusters of the first row, joined
FirstRowText == SpansText(At(spansPerLines, 0))

\* C33: in one-line mode, after SetText, called directly or through ReplaceText,
\* the document is its first line only: there is exactly one row, and the text
\* stored is the concatenation of the clusters of that row.
C33_OneLineTruncation ==
    (oneLineMode /\ log # <<>> /\ ~panicked) =>
        /\ Len(spansPerLines) = 1
        /\ text = FirstRowText

\* SetText("a\nb") on the one-line editor: one row is kept
C33_Witness ==
    /\ oneLineMode
    /\ Len(log) = 1 /\ log[1].key = SetTextKey
    /\ Len(spansPerLines) = 1
    /\ FirstRowText = <<"a">>
    /\ NL \in {text[i] : i \in 1..Len(text)}
    /\ ~panicked

----------------------------------------------------------------------------
(* C34: the callback of a yank and App.drawLoop *)

MaxHostEvents == 4
HostKeys == {"y", "l", "h", "$"}

\* the send on the unbuffered delayDrawChan has no receiver yet: the handler
\* that called delayDrawFunc has not returned to the UI loop
SendPending == delayed > Len(drawLoop.args)

\* the UI loop handles a key once the handler before it has returned
HostKeyEvent(key) == ~SendPending /\ KeyEvent(key, MaxHostEvents)

\* case arg := <-a.delayDrawChan: the argument joins args, whose deadlines are
\* in the order of arrival; the flag tells whether the deadline has passed
DrawLoopReceive ==
    /\ ~panicked
    /\ drawLoop.pc = "select"
    /\ SendPending
    /\ drawLoop' = [drawLoop EXCEPT !.args = Append(@, FALSE)]
    /\ UNCHANGED <<text, spansPerLines, cursor, mode, undoStack, undoOffset,
                   editCount, motionIndexes, offsets, pending, pendingCount,
                   pendingAction, lastMotion, waitingForMotion, visualStart,
                   yankOnVisual, box, clipboard, workers, delayed, searchEditor,
                   flashIndexes, oneLineMode, keyTreePerGroup, panicked, log>>

\* time goes by: the deadline of the oldest argument still ahead passes
DeadlinePasses ==
    /\ ~panicked
    /\ \E i \in 1..Len(drawLoop.args) :
          /\ ~drawLoop.args[i]
          /\ \A j \in 1..(i - 1) : drawLoop.args[j]
          /\ drawLoop' = [drawLoop EXCEPT !.args[i] = TRUE]
    /\ UNCHANGED <<text, spansPerLines, cursor, mode, undoStack, undoOffset,
                   editCount, motionIndexes, offsets, pending, pendingCount,
                   pendingAction, lastMotion, waitingForMotion, visualStart,
                   yankOnVisual, box, clipboard, workers, delayed, searchEditor,
                   flashIndexes, oneLineMode, keyTreePerGroup, panicked, log>>

\* case <-t.C with a first argument whose deadline is still ahead: the
\* application is drawn and drawLoop returns; no branch of the loop calls arg.fn
DrawLoopTick ==
    /\ ~panicked
    /\ drawLoop.pc = "select"
    /\ drawLoop.args # <<>>
    /\ ~drawLoop.args[1]
    /\ Commit([Draw(St) EXCEPT !.drawLoop.pc = "returned"])
    /\ UNCHANGED log

InitHost == InitAs(New(AbCd, <<8, 3>>))
NextHost ==
    \/ \E key \in HostKeys : HostKeyEvent(key)
    \/ DrawLoopReceive
    \/ DeadlinePasses
    \/ DrawLoopTick
\* the loop goroutine and the clock are not held up for ever
FairHost ==
    /\ InitHost /\ [][NextHost]_vars
    /\ WF_vars(DrawLoopReceive) /\ WF_vars(DeadlinePasses) /\ WF_vars(DrawLoopTick)

\* a yank from Normal mode shows its range: Visual mode with the callback owed
YankShown == mode = "visual" /\ yankOnVisual /\ ~panicked
\* the callback has run: Normal mode, and the clipboard holds the range
YankCompleted ==
    /\ mode = "normal"
    /\ ~yankOnVisual
    /\ clipboard = GetText(St, visualStart, cursor)

\* C34: after a yank applied to a motion target from Normal mode the host
\* eventually calls the callback handed to delayDrawFunc: eventually the mode is
\* Normal again and the clipboard holds the text from the start cursor to the
\* target.
C34_YankCompletes == YankShown ~> YankCompleted

\* y, $ showed the range from (0,0) to the end of the row, drawLoop has received
\* the callback and its deadline has passed
C34_Witness ==
    /\ YankShown
    /\ Len(log) = 2 /\ log[1].key = "y" /\ log[2].key = "$"
    /\ drawLoop.args = <<TRUE>>
    /\ cursor = <<0, 4>> /\ visualStart = <<0, 0>>

----------------------------------------------------------------------------
(* C35: the entries of the flash index *)

\* the runes of the spans start..end of a row of the document
RowTextBetween(row, start, end) ==
    SpansText(SubSeq(At(spansPerLines, row), start + 1, end + 1))

\* C35: after every update of the flash query each entry <<row, start, end>> of
\* motionIndexes['Z'] names a row of the buffer inside the viewport,
\* offsets.row <= row < offsets.row + h, and the text of that row from start to
\* end is the query, also when the viewport is scrolled.
C35_FlashEntriesAbsolute ==
    FlashUpdated =>
        \A k \in 1..Len(motionIndexes["Z"]) :
            LET entry == motionIndexes["Z"][k]
            IN /\ offsets[1] <= entry[1]
               /\ entry[1] < offsets[1] + box[2]
               /\ entry[1] < Len(spansPerLines)
               /\ RowTextBetween(entry[1], entry[2], entry[3]) = searchEditor[1].text

\* s, a with the viewport at the top: the matches (0,1) and (1,0) of the two
\* visible rows
C35_Witness ==
    /\ FlashUpdated
    /\ offsets = <<0, 0>>
    /\ searchEditor[1].text = <<"a">>
    /\ motionIndexes["Z"] = << <<0, 1, 1>>, <<1, 0, 0>> >>

----------------------------------------------------------------------------
(* C36: Enter on the empty search prompt *)

\* event k was Enter typed into the search prompt, in its Insert mode, with
\* nothing typed
EmptySearchDone(k) ==
    /\ log[k].key = "enter"
    /\ log[k].pre.prompt = "search"
    /\ log[k].pre.promptMode = "insert"
    /\ log[k].pre.promptText = <<>>
    /\ \E i \in 1..Len(log[k].pre.spansPerLines) :
          Len(log[k].pre.spansPerLines[i]) > 1

\* C36: confirming the search prompt with an empty query, on a buffer with a
\* line that is not empty, completes without a failure: the prompt is closed,
\* the pending state is reset, the text and the cursor are unchanged.
C36_EmptySearchTotal ==
    \A k \in 1..Len(log) :
        EmptySearchDone(k) =>
            /\ ~(k = Len(log) /\ panicked)
            /\ ~PostOf(k).promptOpen
            /\ PostOf(k).pendingAction = ActionNone
            /\ PostOf(k).pendingCount = 0
            /\ PostOf(k).pending = <<>>
            /\ ~PostOf(k).waitingForMotion
            /\ PostOf(k).text = log[k].pre.text
            /\ PostOf(k).cursor = log[k].pre.cursor

\* / opened the search prompt over "ab cd" and Enter was typed at once
C36_Witness ==
    /\ Len(log) = 2
    /\ log[1].key = "/" /\ log[2].key = "enter"
    /\ EmptySearchDone(2)

----------------------------------------------------------------------------
(* C37: the undo offset stays inside the undo stack *)

MaxStackEvents == 5
StackKeys == {"i", "b", "esc", "x", "u", "ctrl+r", "2"}

InitStack == InitAs(New(<<"a", "b">>, <<8, 3>>))
NextStack == \E key \in StackKeys : KeyEvent(key, MaxStackEvents)
SpecStack == InitStack /\ [][NextStack]_vars

\* event k was Undo or Redo, typed in Normal mode with no key pending
UndoOrRedo(k) ==
    /\ log[k].key \in {"u", "ctrl+r"}
    /\ log[k].pre.mode = "normal"
    /\ log[k].pre.pending = <<>>
\* event k left the document and the undo stack as they were
NothingRestored(k) ==
    /\ PostOf(k).text = log[k].pre.text
    /\ PostOf(k).cursor = log[k].pre.cursor
    /\ PostOf(k).undoStack = log[k].pre.undoStack
    /\ PostOf(k).undoOffset = log[k].pre.undoOffset

\* C37: with a non-empty undo stack -1 <= undoOffset <= len(undoStack) - 1; Undo
\* and Redo, for every pending count, read the stack inside its bounds (no
\* run-time panic); Undo with undoOffset = -1 and Redo at the tip change nothing.
C37_UndoIndexSafety ==
    /\ ~panicked
    /\ undoStack # <<>> => (-1 <= undoOffset /\ undoOffset <= Len(undoStack) - 1)
    /\ \A k \in 1..Len(log) :
          UndoOrRedo(k) =>
             /\ (log[k].key = "u" /\ log[k].pre.undoOffset = -1) => NothingRestored(k)
             /\ (log[k].key = "ctrl+r"
                 /\ log[k].pre.undoOffset = Len(log[k].pre.undoStack) - 1)
                   => NothingRestored(k)

\* i, b, Esc left two entries on the stack; 2, u asked for two steps back from
\* offset 0 and read entry 0
C37_Witness ==
    /\ Len(log) = 5
    /\ log[1].key = "i" /\ log[2].key = "b" /\ log[3].key = "esc"
    /\ log[4].key = "2" /\ log[5].key = "u"
    /\ log[5].pre.undoOffset = 0 /\ Len(log[5].pre.undoStack) = 2
    /\ undoOffset = -1
    /\ text = <<"a", "b">>

----------------------------------------------------------------------------
(* C38: what delete and change put on the clipboard *)

MaxClipboardEvents == 4
ClipboardKeys == {"d", "c", "l", "h", "$", "j", "esc"}
AbCdRows == <<"a", "b", NL, "c", "d">>
ClipboardMotionKeys == {"l", "h", "$", "j"}

InitClipboard == InitAs(New(AbCdRows, <<8, 3>>))
NextClipboard == \E key \in ClipboardKeys : KeyEvent(key, MaxClipboardEvents)
SpecClipboard == InitClipboard /\ [][NextClipboard]_vars

\* event k was the motion that gave a pending delete or change its target
OperatorApplied(k) ==
    /\ log[k].key \in ClipboardMotionKeys
    /\ log[k].pre.mode = "normal"
    /\ log[k].pre.pendingAction \in {"delete", "change"}
    /\ log[k].pre.pendingCount = 0
    /\ ~(k = Len(log) /\ panicked)

\* post is pre without one occurrence of clip
RemovedFrom(pre, post, clip) ==
    \E p \in 0..Len(pre) :
        /\ p + Len(clip) <= Len(pre)
        /\ SubSeq(pre, p + 1, p + Len(clip)) = clip
        /\ post = SubSeq(pre, 1, p) \o SubSeq(pre, p + Len(clip) + 1, Len(pre))

\* C38: after a delete or change applied to a target cursor the clipboard holds
\* exactly the text the operation removed from the buffer.
C38_ClipboardIsRemovedText ==
    \A k \in 1..Len(log) :
        OperatorApplied(k) =>
            RemovedFrom(log[k].pre.text, PostOf(k).text, PostOf(k).clipboard)

\* d, l over "ab\ncd": the text lost its first character
C38_Witness ==
    /\ Len(log) = 2
    /\ log[1].key = "d" /\ log[2].key = "l"
    /\ OperatorApplied(2)
    /\ text = <<"b", NL, "c", "d">>
    /\ clipboard # <<>>

----------------------------------------------------------------------------
(* C39: next-find and prev-find after find, find-back and til *)

MaxRepeatEvents == 5
RepeatKeys == {"f", "F", "t", "x", ";", ",", "$"}
XaXbX == <<"x", "a", "x", "b", "x">>

InitRepeat == InitAs(New(XaXbX, <<8, 3>>))
NextRepeat == \E key \in RepeatKeys : KeyEvent(key, MaxRepeatEvents)
SpecRepeat == InitRepeat /\ [][NextRepeat]_vars

FindMotions == {"find", "find_back", "til", "til_back"}
\* event j gave its rune to a find or til motion that had no operator pending
FindRune(j) ==
    /\ log[j].pre.waitingForMotion
    /\ log[j].pre.lastMotion \in FindMotions
    /\ log[j].pre.pendingAction = ActionNone
    /\ log[j].pre.mode = "normal"
\* event k was next-find or prev-find typed in Normal mode after such a motion
RepeatFind(k) ==
    /\ log[k].key \in {";", ","}
    /\ log[k].pre.mode = "normal"
    /\ log[k].pre.pending = <<>>
    /\ ~log[k].pre.waitingForMotion
    /\ \E j \in 1..(k - 1) : FindRune(j)
    /\ ~(k = Len(log) /\ panicked)
\* the find or til motion executed last before event k, and its rune
LastFind(k) == CHOOSE j \in 1..(k - 1) : FindRune(j) /\ \A i \in (j + 1)..(k - 1) : ~FindRune(i)
LastFindMotion(k) == log[LastFind(k)].pre.lastMotion
LastFindRune(k) == log[LastFind(k)].key
\* next-find goes the way of the motion, prev-find the other way
RepeatsForward(k) ==
    (LastFindMotion(k) \in {"find", "til"}) <=> (log[k].key = ";")
\* the rune of row 0 at a column, or "" outside the row
RuneAt(t, col) == IF col >= 0 /\ col < Len(t) THEN t[col + 1] ELSE ""

\* C39: next-find repeats the find or til motion executed last, with its rune
\* and in its direction, and prev-find repeats it in the opposite direction:
\* the cursor does not move the other way, and where it lands the rune is under
\* the cursor (find), right of it (til) or left of it (til-back).
C39_RepeatFindFollowsLastFind ==
    \A k \in 1..Len(log) :
        RepeatFind(k) =>
            /\ IF RepeatsForward(k)
               THEN PostOf(k).cursor[2] >= log[k].pre.cursor[2]
               ELSE PostOf(k).cursor[2] <= log[k].pre.cursor[2]
            /\ PostOf(k).cursor # log[k].pre.cursor =>
                  LastFindRune(k) =
                     RuneAt(log[k].pre.text,
                            PostOf(k).cursor[2]
                            + (CASE LastFindMotion(k) = "til" ->
                                       IF RepeatsForward(k) THEN 1 ELSE -1
                                 [] LastFindMotion(k) = "til_back" ->
                                       IF RepeatsForward(k) THEN 1 ELSE -1
                                 [] OTHER -> 0))

\* F, x found nothing left of (0,0); the next-find that follows went right
C39_Witness ==
    /\ Len(log) = 3
    /\ log[1].key = "F" /\ log[2].key = "x" /\ log[3].key = ";"
    /\ RepeatFind(3)
    /\ LastFindMotion(3) = "find_back"
    /\ log[3].pre.cursor = <<0, 0>>
    /\ cursor = <<0, 2>>

----------------------------------------------------------------------------
(* C40: an operator with inside or around and nothing to select *)

MaxSurroundEvents == 7
\* d, i and y are also the runes typed after inside that name no delimiter
SurroundKeys == {"d", "y", "i", "("}
ParenAB == <<"(", "a", ")", " ", "b">>

\* New, then MoveCursorTo a grapheme inside the pair or after it
InitSurround ==
    \E col \in {1, 4} : InitAs(MoveCursorTo(New(ParenAB, <<8, 3>>), <<0, col>>))
NextSurround ==
    \/ \E key \in SurroundKeys : KeyEvent(key, MaxSurroundEvents)
    \/ DelayedEvent(MaxSurroundEvents)
SpecSurround == InitSurround /\ [][NextSurround]_vars

\* event k gave its rune to inside or around with an operator pending
SurroundRune(k) ==
    /\ log[k].pre.waitingForMotion
    /\ log[k].pre.lastMotion \in SurroundActions
    /\ log[k].pre.pendingAction \in {"delete", "change"}
    /\ log[k].pre.mode = "normal"
\* a pair of parentheses of row 0 encloses the column
EnclosedByParens(t, col) ==
    \E o \in 1..Len(t), c \in 1..Len(t) :
        /\ t[o] = "(" /\ t[c] = ")"
        /\ o - 1 <= col /\ col <= c - 1
\* the rune names no delimiter, or no pair of it encloses the cursor
NothingToSelect(k) ==
    \/ log[k].key \notin (matchBlocks \cup {"w", "W"})
    \/ /\ log[k].key \in {"(", ")"}
       /\ ~EnclosedByParens(log[k].pre.text, log[k].pre.cursor[2])

\* C40: an operator combined with inside or around whose rune is no delimiter,
\* or has no pair enclosing the cursor, leaves the text and the cursor as they
\* were, whatever inside or around command ran before on the same text.
C40_NoEnclosingPairNoChange ==
    \A k \in 1..Len(log) :
        (SurroundRune(k) /\ NothingToSelect(k)) =>
            /\ PostOf(k).text = log[k].pre.text
            /\ PostOf(k).cursor = log[k].pre.cursor

\* y, i, ( yanked the inside of the pair and the host ran the queued callback;
\* d, i, d (the rune d names no delimiter) then deleted what was yanked
C40_Witness ==
    /\ Len(log) = 7
    /\ log[1].key = "y" /\ log[2].key = "i" /\ log[3].key = "("
    /\ log[4].key = DelayedKey
    /\ log[5].key = "d" /\ log[6].key = "i" /\ log[7].key = "d"
    /\ log[1].pre.cursor = <<0, 1>>
    /\ SurroundRune(7) /\ NothingToSelect(7)
    /\ log[7].pre.text = ParenAB
    /\ text # ParenAB

====
